---- MODULE Spec2Model ----
(***************************************************************************)
(* Domain-event distribution layer of axum-server (src/src/kafka):         *)
(* the event model, the topic/key router, the EventProducer and the        *)
(* EventConsumer with its streaming loop.                                  *)
(*                                                                         *)
(* Option<T> values are sequences: None is <<>> and Some(v) is <<v>>.      *)
(* Uuid, String and topic values are strings, so that format!() is string  *)
(* concatenation.  DateTime<Utc> values are natural numbers (instants).    *)
(***************************************************************************)
EXTENDS Integers, Sequences, FiniteSets, TLC

VARIABLES
    config,         \* the KafkaConfig handed to the constructors
    now,            \* the clock read by Utc::now()
    producerNew,    \* the calls of EventProducer::new made so far, with their results
    calls,          \* the calls of publish_event made so far (one record per call)
    sent,           \* the records handed to FutureProducer::send, in order
    routed,         \* the last two applications of the topic/key router
    consumerNew,    \* the calls of EventConsumer::new made so far, with their results
    loop,           \* the task running start_consuming: its position and result
    stream,         \* the items consumer.stream() has yielded so far, in order
    handled,        \* the envelopes handle_event has run for, in order
    broadcast,      \* the envelopes given to event_sender.send, in order
    sleeps,         \* the durations (seconds) the loop has slept, in order
    effects,        \* what process_message did (handle_event, send), in order
    channel,        \* the broadcast channel behind event_sender
    receivers,      \* the receivers handed out by EventConsumer::subscribe
    process,        \* where main() is: "starting", "serving", "bind_failed", "panicked"
    codec,          \* the application of the envelope codec, once made
    topology,       \* the topics of producer and consumer under two option settings
    db_pool,        \* the todos table behind AppState.db_pool
    http,           \* the last HTTP exchange, with the same request on a reference run
    inflight,       \* the messages read whose process_message has not returned yet
    runs,           \* the calls of run_event_consumer made so far
    tasks           \* the tasks run_event_consumer has spawned, with their positions

producerVars == <<producerNew, calls, sent>>
loopVars == <<stream, handled, broadcast, sleeps, effects, channel>>
consumerVars == <<consumerNew, loop, loopVars, receivers>>
harnessVars == <<routed, codec, topology>>
serviceVars == <<db_pool, http>>
taskVars == <<inflight, runs, tasks>>
vars == <<config, now, process, harnessVars, producerVars, consumerVars, serviceVars,
          taskVars>>

(***************************************************************************)
(* Bounds of the model.                                                    *)
(***************************************************************************)
MaxPublishes == 2
MaxStream == 3

None == <<>>
Some(v) == <<v>>
IsSome(o) == o # <<>>

(***************************************************************************)
(* Input domains.                                                          *)
(***************************************************************************)
Uuids == {"u1", "u2"}
Texts == {"x", "y"}
Instants == {0, 1}
Prefixes == {"axum-server", "app"}
Timeouts == {5000, 250}
IdLists == {<<>>, <<"u1">>, <<"u2">>, <<"u1", "u2">>}
OptTexts == {None} \cup {Some(s) : s \in Texts}
OptUuids == {None} \cup {Some(u) : u \in Uuids}

(***************************************************************************)
(* KafkaConfig: the fields the producer and the consumer read.             *)
(***************************************************************************)
KafkaConfig ==
    [enabled : BOOLEAN, topic_prefix : Prefixes, producer_timeout_ms : Timeouts,
     todo_events_topic : {"todo-events"}, user_events_topic : {"user-events"},
     category_events_topic : {"category-events"}, tag_events_topic : {"tag-events"}]

\* The values the per-entity topic options can be given.
TopicOptions ==
    [todo_events_topic : {"todo-events", "app.todos.v2"},
     user_events_topic : {"user-events", "app.users.v2"},
     category_events_topic : {"category-events", "app.categories.v2"},
     tag_events_topic : {"tag-events", "app.tags.v2"}]

\* A configuration with its per-entity topic options set.
with_topic_options(cfg, options) ==
    [cfg EXCEPT !.todo_events_topic = options.todo_events_topic,
                !.user_events_topic = options.user_events_topic,
                !.category_events_topic = options.category_events_topic,
                !.tag_events_topic = options.tag_events_topic]

(***************************************************************************)
(* DomainEvent: one record set per variant of the enum, each with the id   *)
(* fields of its payload struct and one further payload field.  The        *)
(* payload of TodoUpdated, the one with the most optional fields, has all  *)
(* the fields of its struct.                                               *)
(***************************************************************************)
UserRegisteredEvent(U, T) == [variant : {"UserRegistered"}, user_id : U, username : T]
UserLoggedInEvent(U, T) == [variant : {"UserLoggedIn"}, user_id : U, username : T]
TodoCreatedEvent(U, T) == [variant : {"TodoCreated"}, todo_id : U, title : T, user_id : U]
TodoUpdatedEvent(U, OT) ==
    [variant : {"TodoUpdated"}, todo_id : U, title : OT, description : {None},
     completed : {None}, category_id : {None}, priority : {None}, due_date : {None},
     tags : {None}]
TodoCompletedEvent(U, I) == [variant : {"TodoCompleted"}, todo_id : U, completed_at : I]
TodoDeletedEvent(U, I) == [variant : {"TodoDeleted"}, todo_id : U, deleted_at : I]
TodosDeletedBatchEvent(L, I) == [variant : {"TodosDeletedBatch"}, todo_ids : L, deleted_at : I]
TodosUpdatedBatchEvent(L, I) == [variant : {"TodosUpdatedBatch"}, todo_ids : L, updated_at : I]
CategoryCreatedEvent(U, T) == [variant : {"CategoryCreated"}, category_id : U, name : T, user_id : U]
CategoryUpdatedEvent(U, OT) == [variant : {"CategoryUpdated"}, category_id : U, name : OT]
CategoryDeletedEvent(U, I) == [variant : {"CategoryDeleted"}, category_id : U, deleted_at : I]
TagCreatedEvent(U, T) == [variant : {"TagCreated"}, tag_id : U, name : T, user_id : U]
TagUpdatedEvent(U, T) == [variant : {"TagUpdated"}, tag_id : U, name : T]
TagDeletedEvent(U, I) == [variant : {"TagDeleted"}, tag_id : U, deleted_at : I]

DomainEvent ==
    UserRegisteredEvent(Uuids, Texts) \cup UserLoggedInEvent(Uuids, Texts)
    \cup TodoCreatedEvent(Uuids, Texts) \cup TodoUpdatedEvent(Uuids, OptTexts)
    \cup TodoCompletedEvent(Uuids, Instants) \cup TodoDeletedEvent(Uuids, Instants)
    \cup TodosDeletedBatchEvent(IdLists, Instants)
    \cup TodosUpdatedBatchEvent(IdLists, Instants)
    \cup CategoryCreatedEvent(Uuids, Texts) \cup CategoryUpdatedEvent(Uuids, OptTexts)
    \cup CategoryDeletedEvent(Uuids, Instants)
    \cup TagCreatedEvent(Uuids, Texts) \cup TagUpdatedEvent(Uuids, Texts)
    \cup TagDeletedEvent(Uuids, Instants)

Variants ==
    {"UserRegistered", "UserLoggedIn", "TodoCreated", "TodoUpdated", "TodoCompleted",
     "TodoDeleted", "TodosDeletedBatch", "TodosUpdatedBatch", "CategoryCreated",
     "CategoryUpdated", "CategoryDeleted", "TagCreated", "TagUpdated", "TagDeleted"}

(***************************************************************************)
(* EventMetadata::new and EventEnvelope::new.  Uuid::new_v4() is a fresh   *)
(* id, here numbered by the call that draws it.                            *)
(***************************************************************************)
new_v4(n) == "e" \o ToString(n)

\* Mutant: the fresh metadata is correlated with its own event id.
EventMetadata_new_correlated(user_id, n, t) ==
    [event_id |-> new_v4(n), timestamp |-> t, user_id |-> user_id,
     correlation_id |-> Some(new_v4(n))]

EventMetadata_new(user_id, n, t) ==
    [event_id |-> new_v4(n), timestamp |-> t, user_id |-> user_id,
     correlation_id |-> None]

EventEnvelope_new(event, user_id, n, t) ==
    [metadata |-> EventMetadata_new(user_id, n, t), event |-> event]

(***************************************************************************)
(* The wire format.  A JSON document is a tagged value; a text that is not *)
(* JSON is the document [t |-> "invalid"].  DateTime<Utc> is written by    *)
(* serde as an RFC3339 string ending in "Z", by to_rfc3339() with the      *)
(* offset "+00:00"; both parse back to the same instant.                   *)
(***************************************************************************)
JNull == [t |-> "null"]
JStr(s) == [t |-> "string", v |-> s]
JArr(a) == [t |-> "array", v |-> a]
JObj(o) == [t |-> "object", v |-> o]
JBool(b) == [t |-> "bool", v |-> b]
JNum(n) == [t |-> "number", v |-> n]
JInvalid == [t |-> "invalid"]

serialize_datetime(i) == "1970-01-01T00:00:0" \o ToString(i) \o "Z"
to_rfc3339(i) == "1970-01-01T00:00:0" \o ToString(i) \o "+00:00"

deserialize_datetime(s) ==
    LET m == {i \in 0..9 : s = serialize_datetime(i) \/ s = to_rfc3339(i)}
    IN  IF m = {} THEN None ELSE Some(CHOOSE i \in m : TRUE)

\* The payload struct of each variant: field name |-> Rust type.
Schema(variant) ==
    CASE variant = "UserRegistered"    -> [user_id |-> "Uuid", username |-> "String"]
      [] variant = "UserLoggedIn"      -> [user_id |-> "Uuid", username |-> "String"]
      [] variant = "TodoCreated"       -> [todo_id |-> "Uuid", title |-> "String", user_id |-> "Uuid"]
      [] variant = "TodoUpdated"       ->
            [todo_id |-> "Uuid", title |-> "Option<String>",
             description |-> "Option<String>", completed |-> "Option<bool>",
             category_id |-> "Option<Uuid>", priority |-> "Option<i32>",
             due_date |-> "Option<DateTime>", tags |-> "Option<Vec<String>>"]
      [] variant = "TodoCompleted"     -> [todo_id |-> "Uuid", completed_at |-> "DateTime"]
      [] variant = "TodoDeleted"       -> [todo_id |-> "Uuid", deleted_at |-> "DateTime"]
      [] variant = "TodosDeletedBatch" -> [todo_ids |-> "Vec<Uuid>", deleted_at |-> "DateTime"]
      [] variant = "TodosUpdatedBatch" -> [todo_ids |-> "Vec<Uuid>", updated_at |-> "DateTime"]
      [] variant = "CategoryCreated"   -> [category_id |-> "Uuid", name |-> "String", user_id |-> "Uuid"]
      [] variant = "CategoryUpdated"   -> [category_id |-> "Uuid", name |-> "Option<String>"]
      [] variant = "CategoryDeleted"   -> [category_id |-> "Uuid", deleted_at |-> "DateTime"]
      [] variant = "TagCreated"        -> [tag_id |-> "Uuid", name |-> "String", user_id |-> "Uuid"]
      [] variant = "TagUpdated"        -> [tag_id |-> "Uuid", name |-> "String"]
      [] variant = "TagDeleted"        -> [tag_id |-> "Uuid", deleted_at |-> "DateTime"]

MetadataSchema ==
    [event_id |-> "Uuid", timestamp |-> "DateTime", user_id |-> "Option<Uuid>",
     correlation_id |-> "Option<String>"]

\* Option<T> |-> T, for the Option types of the payload structs.
OptionInner ==
    [x \in {"Option<String>", "Option<Uuid>", "Option<bool>", "Option<i32>",
            "Option<DateTime>", "Option<Vec<String>>"} |->
        CASE x = "Option<String>" -> "String"
          [] x = "Option<Uuid>" -> "Uuid"
          [] x = "Option<bool>" -> "bool"
          [] x = "Option<i32>" -> "i32"
          [] x = "Option<DateTime>" -> "DateTime"
          [] x = "Option<Vec<String>>" -> "Vec<String>"]

IsOptionType(type) == type \in DOMAIN OptionInner

\* Serialize for a value of a Rust type that is no Option.
serialize_plain(type, value) ==
    CASE type \in {"Uuid", "String"} -> JStr(value)
      [] type = "bool" -> JBool(value)
      [] type = "i32" -> JNum(value)
      [] type = "DateTime" -> JStr(serialize_datetime(value))
      [] type \in {"Vec<Uuid>", "Vec<String>"} ->
            JArr([i \in 1..Len(value) |-> JStr(value[i])])

\* The type and the value inside Some(_), or those of a field that is no Option.
PlainType(type) == IF IsOptionType(type) THEN OptionInner[type] ELSE type
PlainValue(type, value) == IF IsOptionType(type) THEN value[1] ELSE value

\* Mutant: a field that is None is written as the empty string.
serialize_value_none_as_empty(type, value) ==
    IF IsOptionType(type) /\ value = None THEN JStr("")
    ELSE serialize_plain(PlainType(type), PlainValue(type, value))

\* Serialize for one field value of the given Rust type: None is null.
serialize_value(type, value) ==
    IF IsOptionType(type) /\ value = None THEN JNull
    ELSE serialize_plain(PlainType(type), PlainValue(type, value))

serialize_struct(schema, value) ==
    JObj([f \in DOMAIN schema |-> serialize_value(schema[f], value[f])])

\* Mutant: the variant is written under "type", which the decoder does not read.
serialize_event_type_tag(event) ==
    JObj([type |-> JStr(event.variant),
          data |-> serialize_struct(Schema(event.variant), event)])

\* #[serde(tag = "event_type", content = "data")]: the adjacently tagged enum.
serialize_event(event) ==
    JObj([event_type |-> JStr(event.variant),
          data |-> serialize_struct(Schema(event.variant), event)])

\* serde_json::to_string(&envelope), as the document the text parses to.
to_string(envelope) ==
    JObj([metadata |-> serialize_struct(MetadataSchema, envelope.metadata),
          event |-> serialize_event(envelope.event)])

(***************************************************************************)
(* The topic/key router (producer.rs).  self is an EventProducer value:    *)
(* [producer |-> Option<FutureProducer>, config |-> KafkaConfig].          *)
(***************************************************************************)
\* Mutant: the batch events get a topic of their own.
get_topic_for_event_batch_topic(self, event) ==
    LET topic_suffix ==
            CASE event.variant \in {"UserRegistered", "UserLoggedIn"} -> "users"
              [] event.variant \in {"TodoCreated", "TodoUpdated", "TodoCompleted",
                                    "TodoDeleted"} -> "todos"
              [] event.variant \in {"TodosDeletedBatch", "TodosUpdatedBatch"} -> "batches"
              [] event.variant \in {"CategoryCreated", "CategoryUpdated",
                                    "CategoryDeleted"} -> "categories"
              [] event.variant \in {"TagCreated", "TagUpdated", "TagDeleted"} -> "tags"
    IN  self.config.topic_prefix \o "." \o topic_suffix

\* Mutant: the topic is the per-entity topic option of the configuration.
get_topic_for_event_from_options(self, event) ==
    CASE event.variant \in {"UserRegistered", "UserLoggedIn"} -> self.config.user_events_topic
      [] event.variant \in {"TodoCreated", "TodoUpdated", "TodoCompleted", "TodoDeleted",
                            "TodosDeletedBatch", "TodosUpdatedBatch"} ->
            self.config.todo_events_topic
      [] event.variant \in {"CategoryCreated", "CategoryUpdated", "CategoryDeleted"} ->
            self.config.category_events_topic
      [] event.variant \in {"TagCreated", "TagUpdated", "TagDeleted"} ->
            self.config.tag_events_topic

get_topic_for_event(self, event) ==
    LET topic_suffix ==
            CASE event.variant \in {"UserRegistered", "UserLoggedIn"} -> "users"
              [] event.variant \in {"TodoCreated", "TodoUpdated", "TodoCompleted",
                                    "TodoDeleted", "TodosDeletedBatch",
                                    "TodosUpdatedBatch"} -> "todos"
              [] event.variant \in {"CategoryCreated", "CategoryUpdated",
                                    "CategoryDeleted"} -> "categories"
              [] event.variant \in {"TagCreated", "TagUpdated", "TagDeleted"} -> "tags"
    IN  self.config.topic_prefix \o "." \o topic_suffix

\* Mutant: the created entities are keyed by their owner, not by their own id.
get_key_for_event_by_owner(self, event) ==
    CASE event.variant = "UserRegistered"    -> "user." \o event.user_id
      [] event.variant = "UserLoggedIn"      -> "user." \o event.user_id
      [] event.variant = "TodoCreated"       -> "todo." \o event.user_id
      [] event.variant = "TodoUpdated"       -> "todo." \o event.todo_id
      [] event.variant = "TodoCompleted"     -> "todo." \o event.todo_id
      [] event.variant = "TodoDeleted"       -> "todo." \o event.todo_id
      [] event.variant = "TodosDeletedBatch" -> "batch.delete"
      [] event.variant = "TodosUpdatedBatch" -> "batch.update"
      [] event.variant = "CategoryCreated"   -> "category." \o event.user_id
      [] event.variant = "CategoryUpdated"   -> "category." \o event.category_id
      [] event.variant = "CategoryDeleted"   -> "category." \o event.category_id
      [] event.variant = "TagCreated"        -> "tag." \o event.user_id
      [] event.variant = "TagUpdated"        -> "tag." \o event.tag_id
      [] event.variant = "TagDeleted"        -> "tag." \o event.tag_id

get_key_for_event(self, event) ==
    CASE event.variant = "UserRegistered"    -> "user." \o event.user_id
      [] event.variant = "UserLoggedIn"      -> "user." \o event.user_id
      [] event.variant = "TodoCreated"       -> "todo." \o event.todo_id
      [] event.variant = "TodoUpdated"       -> "todo." \o event.todo_id
      [] event.variant = "TodoCompleted"     -> "todo." \o event.todo_id
      [] event.variant = "TodoDeleted"       -> "todo." \o event.todo_id
      [] event.variant = "TodosDeletedBatch" -> "batch.delete"
      [] event.variant = "TodosUpdatedBatch" -> "batch.update"
      [] event.variant = "CategoryCreated"   -> "category." \o event.category_id
      [] event.variant = "CategoryUpdated"   -> "category." \o event.category_id
      [] event.variant = "CategoryDeleted"   -> "category." \o event.category_id
      [] event.variant = "TagCreated"        -> "tag." \o event.tag_id
      [] event.variant = "TagUpdated"        -> "tag." \o event.tag_id
      [] event.variant = "TagDeleted"        -> "tag." \o event.tag_id

Header(key, value) == [key |-> key, value |-> value]

\* Mutant: the user_id header is always written, empty without an actor.
create_headers_user_always(self, envelope) ==
    <<Header("event_id", envelope.metadata.event_id),
      Header("timestamp", to_rfc3339(envelope.metadata.timestamp)),
      Header("user_id", IF IsSome(envelope.metadata.user_id)
                        THEN envelope.metadata.user_id[1] ELSE "")>>
    \o (IF IsSome(envelope.metadata.correlation_id)
        THEN <<Header("correlation_id", envelope.metadata.correlation_id[1])>> ELSE <<>>)
    \o <<Header("content_type", "application/json")>>

create_headers(self, envelope) ==
    <<Header("event_id", envelope.metadata.event_id),
      Header("timestamp", to_rfc3339(envelope.metadata.timestamp))>>
    \o (IF IsSome(envelope.metadata.user_id)
        THEN <<Header("user_id", envelope.metadata.user_id[1])>> ELSE <<>>)
    \o (IF IsSome(envelope.metadata.correlation_id)
        THEN <<Header("correlation_id", envelope.metadata.correlation_id[1])>> ELSE <<>>)
    \o <<Header("content_type", "application/json")>>

(***************************************************************************)
(* Result<T, KafkaEventError>.                                             *)
(***************************************************************************)
Ok(v) == [ok |-> TRUE, value |-> Some(v), error |-> "-"]
Err(e) == [ok |-> FALSE, value |-> None, error |-> e]
Unit == "()"

(***************************************************************************)
(* EventProducer::new.  create_ok is the outcome of kafka_config.create(); *)
(* the ? operator turns its failure into the constructor's Err.            *)
(***************************************************************************)
\* Mutant: the client is created before enabled is looked at.
EventProducer_new_create_first(cfg, create_ok) ==
    IF ~create_ok THEN Err("ProducerError")
    ELSE Ok([producer |-> IF cfg.enabled THEN Some("FutureProducer") ELSE None,
             config |-> cfg])

EventProducer_new(cfg, create_ok) ==
    IF ~cfg.enabled
    THEN Ok([producer |-> None, config |-> cfg])
    ELSE IF ~create_ok
         THEN Err("ProducerError")
         ELSE Ok([producer |-> Some("FutureProducer"), config |-> cfg])

EventProducer_is_enabled(self) == IsSome(self.producer)

\* What the constructor call met at kafka_config.create().
CreateOutcome(cfg, create_ok) ==
    IF ~cfg.enabled THEN "not_attempted" ELSE IF create_ok THEN "created" ELSE "failed"

NewCall(cfg, create_ok) ==
    [config |-> cfg, create |-> CreateOutcome(cfg, create_ok),
     result |-> EventProducer_new(cfg, create_ok)]

\* main.rs: the producer is constructed from the loaded configuration ...
main_producer_new(create_ok) ==
    /\ process = "starting"
    /\ producerNew = <<>>
    /\ producerNew' = <<NewCall(config, create_ok)>>
    /\ UNCHANGED <<config, now, calls, sent, process, harnessVars, consumerVars, serviceVars, taskVars>>

\* ... and, when that returns Err, once more from a copy with enabled = false,
\* while the broker is still out of reach; .expect() panics on a second Err.
main_producer_fallback ==
    /\ process = "starting"
    /\ Len(producerNew) = 1
    /\ ~producerNew[1].result.ok
    /\ LET disabled_config == [config EXCEPT !.enabled = FALSE]
           call == NewCall(disabled_config, FALSE)
       IN  /\ producerNew' = Append(producerNew, call)
           /\ process' = IF call.result.ok THEN process ELSE "panicked"
    /\ UNCHANGED <<config, now, calls, sent, harnessVars, consumerVars, serviceVars, taskVars>>

\* The EventProducer the application holds (AppState.kafka_producer), if any.
HasProducer == producerNew # <<>> /\ producerNew[Len(producerNew)].result.ok
kafka_producer == producerNew[Len(producerNew)].result.value[1]

\* Mutant: the envelope is built once and shared: every call sends the first id.
publish_event_shared_envelope(self, event, user_id, n, t) ==
    IF self.producer = None
    THEN [returned |-> Some(Ok(Unit)), record |-> None]
    ELSE LET envelope == EventEnvelope_new(event, user_id, 1, 0)
         IN  [returned |-> None,
              record |-> Some([topic |-> get_topic_for_event(self, envelope.event),
                               key |-> get_key_for_event(self, envelope.event),
                               payload |-> to_string(envelope),
                               headers |-> create_headers(self, envelope),
                               timeout_ms |-> self.config.producer_timeout_ms])]

\* main.rs: with the producer in hand main builds the routes, binds the
\* listener and serves; a failed bind exits the process.  Nothing else is
\* constructed or started on the way.
main_serve(bind_ok) ==
    /\ process = "starting"
    /\ HasProducer
    /\ process' = IF bind_ok THEN "serving" ELSE "bind_failed"
    /\ UNCHANGED <<config, now, harnessVars, producerVars, consumerVars, serviceVars, taskVars>>

\* Mutant: the check of self.producer is missing, every call builds and sends.
publish_event_unguarded(self, event, user_id, n, t) ==
    LET envelope == EventEnvelope_new(event, user_id, n, t)
    IN  [returned |-> None,
         record |-> Some([topic |-> self.config.topic_prefix \o ".todos",
                          key |-> "todo",
                          payload |-> to_string(envelope),
                          headers |-> <<>>,
                          timeout_ms |-> self.config.producer_timeout_ms])]

(***************************************************************************)
(* publish_event up to the await of FutureProducer::send: the early return *)
(* of a disabled producer, or the envelope and the record that is sent.    *)
(* n numbers the envelope, t is the clock.  serde_json::to_string cannot   *)
(* fail for these types (strings, numbers, options, vectors, structs), so  *)
(* its `?` never returns.                                                  *)
(***************************************************************************)
publish_event(self, event, user_id, n, t) ==
    IF self.producer = None
    THEN [returned |-> Some(Ok(Unit)), record |-> None]
    ELSE LET envelope == EventEnvelope_new(event, user_id, n, t)
         IN  [returned |-> None,
              record |-> Some([topic |-> get_topic_for_event(self, envelope.event),
                               key |-> get_key_for_event(self, envelope.event),
                               payload |-> to_string(envelope),
                               headers |-> create_headers(self, envelope),
                               timeout_ms |-> self.config.producer_timeout_ms])]

\* Mutant: a send that timed out is sent again.
publish_event_result_retry(outcome) ==
    IF outcome = "delivered"
    THEN [returned |-> Ok(Unit), resend |-> FALSE]
    ELSE [returned |-> Err("ProducerError"), resend |-> outcome = "timed_out"]

\* publish_event after the await: the match on the send's outcome.
publish_event_result(outcome) ==
    IF outcome = "delivered"
    THEN [returned |-> Ok(Unit), resend |-> FALSE]
    ELSE [returned |-> Err("ProducerError"), resend |-> FALSE]

SendOutcomes == {"delivered", "timed_out", "rejected"}

\* The events and actor ids the holders of the producer publish in this model.
PublishedEvents ==
    {[variant |-> "TodoCreated", todo_id |-> "u1", title |-> "x", user_id |-> "u2"],
     [variant |-> "TodoDeleted", todo_id |-> "u1", deleted_at |-> 0],
     [variant |-> "UserRegistered", user_id |-> "u2", username |-> "x"],
     [variant |-> "TodosDeletedBatch", todo_ids |-> <<"u1", "u2">>, deleted_at |-> 1]}
Actors == {None, Some("u2")}

\* A task calls publish_event and runs it up to the return or to the await.
\* Calls overlap: a new call may start while earlier sends are still awaited.
\* The clock moves on with every envelope that is built.
PublishCall(event, user_id) ==
    /\ HasProducer
    /\ Len(calls) < MaxPublishes
    /\ LET step == publish_event(kafka_producer, event, user_id, Len(sent) + 1, now)
           id == Len(calls) + 1
       IN  IF IsSome(step.returned)
           THEN /\ calls' = Append(calls, [event |-> event, user_id |-> user_id,
                                           enabled |-> EventProducer_is_enabled(kafka_producer),
                                           pc |-> "returned", outcomes |-> <<>>,
                                           result |-> step.returned])
                /\ UNCHANGED <<sent, now>>
           ELSE /\ calls' = Append(calls, [event |-> event, user_id |-> user_id,
                                           enabled |-> EventProducer_is_enabled(kafka_producer),
                                           pc |-> "sending", outcomes |-> <<>>,
                                           result |-> None])
                /\ sent' = Append(sent, [call |-> id, record |-> step.record[1]])
                /\ now' = now + 1
    /\ UNCHANGED <<config, producerNew, process, harnessVars, consumerVars, serviceVars, taskVars>>

\* The send of call id completes; publish_event returns what the match yields.
SendComplete(id, outcome) ==
    /\ id \in 1..Len(calls)
    /\ calls[id].pc = "sending"
    /\ LET after == publish_event_result(outcome)
           last == CHOOSE i \in 1..Len(sent) :
                       sent[i].call = id /\ \A j \in 1..Len(sent) : sent[j].call = id => j <= i
       IN  IF after.resend
           THEN /\ calls' = [calls EXCEPT ![id].outcomes = Append(@, outcome)]
                /\ sent' = Append(sent, sent[last])
           ELSE /\ calls' = [calls EXCEPT ![id].outcomes = Append(@, outcome),
                                          ![id].pc = "returned",
                                          ![id].result = Some(after.returned)]
                /\ UNCHANGED sent
    /\ UNCHANGED <<config, now, producerNew, process, harnessVars, consumerVars, serviceVars, taskVars>>

(***************************************************************************)
(* The router applied to any event: the last two applications are kept.    *)
(***************************************************************************)
Route(event) ==
    /\ LET self == [producer |-> Some("FutureProducer"), config |-> config]
           r == [event |-> event, topic |-> get_topic_for_event(self, event),
                 key |-> get_key_for_event(self, event)]
       IN  routed' = IF routed = <<>> THEN <<r>> ELSE <<routed[Len(routed)], r>>
    /\ UNCHANGED <<config, now, process, codec, topology, producerVars, consumerVars, serviceVars, taskVars>>

(***************************************************************************)
(* Deserialization (serde_json::from_str::<EventEnvelope>).  Each operator *)
(* yields Some(value), or None where serde reports an error.  A field that *)
(* is absent from an object is an error unless its type is an Option;      *)
(* fields the struct does not name are ignored.                            *)
(***************************************************************************)
UuidStrings == Uuids \cup {new_v4(n) : n \in 0..9}

\* Deserialize for a Rust type that is no Option.
deserialize_plain(type, j) ==
    CASE type = "Uuid" ->
            IF j.t = "string" /\ j.v \in UuidStrings THEN Some(j.v) ELSE None
      [] type = "String" -> IF j.t = "string" THEN Some(j.v) ELSE None
      [] type = "bool" -> IF j.t = "bool" THEN Some(j.v) ELSE None
      [] type = "i32" -> IF j.t = "number" THEN Some(j.v) ELSE None
      [] type = "DateTime" -> IF j.t = "string" THEN deserialize_datetime(j.v) ELSE None
      [] type = "Vec<Uuid>" ->
            IF j.t = "array" /\ \A i \in 1..Len(j.v) :
                                   j.v[i].t = "string" /\ j.v[i].v \in UuidStrings
            THEN Some([i \in 1..Len(j.v) |-> j.v[i].v]) ELSE None
      [] type = "Vec<String>" ->
            IF j.t = "array" /\ \A i \in 1..Len(j.v) : j.v[i].t = "string"
            THEN Some([i \in 1..Len(j.v) |-> j.v[i].v]) ELSE None

\* A decoded value v is Some(v); as the value of an Option field it is
\* Some(Some(v)).  An error stays an error.
OptionWrap(type, decoded) ==
    IF IsOptionType(type) /\ IsSome(decoded) THEN Some(decoded) ELSE decoded

\* Deserialize for one field: null is None for an Option, an error otherwise.
deserialize_value(type, j) ==
    IF IsOptionType(type) /\ j.t = "null" THEN Some(None)
    ELSE OptionWrap(type, deserialize_plain(PlainType(type), j))

deserialize_field(schema, o, f) ==
    IF f \in DOMAIN o THEN deserialize_value(schema[f], o[f])
    ELSE IF IsOptionType(schema[f]) THEN Some(None) ELSE None

\* The fields of a struct, with the fixed fields `extra` added to the record.
deserialize_struct(schema, j, extra) ==
    IF j.t = "object" /\ \A f \in DOMAIN schema : IsSome(deserialize_field(schema, j.v, f))
    THEN Some([f \in DOMAIN schema \cup DOMAIN extra |->
                  IF f \in DOMAIN extra THEN extra[f]
                  ELSE deserialize_field(schema, j.v, f)[1]])
    ELSE None

deserialize_event(j) ==
    IF /\ j.t = "object"
       /\ {"event_type", "data"} \subseteq DOMAIN j.v
       /\ j.v.event_type.t = "string"
       /\ j.v.event_type.v \in Variants
    THEN deserialize_struct(Schema(j.v.event_type.v), j.v.data,
                            [variant |-> j.v.event_type.v])
    ELSE None

from_str(doc) ==
    IF doc.t = "object" /\ {"metadata", "event"} \subseteq DOMAIN doc.v
    THEN LET metadata == deserialize_struct(MetadataSchema, doc.v.metadata, <<>>)
             event == deserialize_event(doc.v.event)
         IN  IF IsSome(metadata) /\ IsSome(event)
             THEN Some([metadata |-> metadata[1], event |-> event[1]])
             ELSE None
    ELSE None

(***************************************************************************)
(* EventConsumer::new.  create_ok and subscribe_ok are the outcomes of     *)
(* kafka_config.create() and consumer.subscribe(); the value is an         *)
(* EventConsumer [consumer |-> Option<StreamConsumer>, config |-> ...],    *)
(* and subscribed the topic list given to subscribe (if it was called).    *)
(***************************************************************************)
\* Mutant: the topic names are written out with the default prefix.
consumer_topics_default_prefix(cfg) ==
    <<"axum-server.users", "axum-server.todos", "axum-server.categories",
      "axum-server.tags">>

consumer_topics(cfg) ==
    <<cfg.topic_prefix \o ".users", cfg.topic_prefix \o ".todos",
      cfg.topic_prefix \o ".categories", cfg.topic_prefix \o ".tags">>

\* Mutant: a failed subscription is propagated with `?`.
EventConsumer_new_propagating(cfg, create_ok, subscribe_ok) ==
    IF ~cfg.enabled \/ ~create_ok
    THEN [result |-> Ok([consumer |-> None, config |-> cfg]), subscribe |-> None]
    ELSE IF ~subscribe_ok
         THEN [result |-> Err("ProducerError"), subscribe |-> Some(consumer_topics(cfg))]
         ELSE [result |-> Ok([consumer |-> Some("StreamConsumer"), config |-> cfg]),
               subscribe |-> Some(consumer_topics(cfg))]

EventConsumer_new(cfg, create_ok, subscribe_ok) ==
    IF ~cfg.enabled
    THEN [result |-> Ok([consumer |-> None, config |-> cfg]), subscribe |-> None]
    ELSE IF ~create_ok
         THEN [result |-> Ok([consumer |-> None, config |-> cfg]), subscribe |-> None]
         ELSE IF ~subscribe_ok
              THEN [result |-> Ok([consumer |-> None, config |-> cfg]),
                    subscribe |-> Some(consumer_topics(cfg))]
              ELSE [result |-> Ok([consumer |-> Some("StreamConsumer"), config |-> cfg]),
                    subscribe |-> Some(consumer_topics(cfg))]

EventConsumer_is_enabled(self) == IsSome(self.consumer)

(***************************************************************************)
(* The broadcast channel of the consumer (tokio::sync::broadcast).  The    *)
(* channel keeps the last `capacity` values sent; tail counts the values   *)
(* stored so far, so that the retained values have the positions           *)
(* tail - Len(values) .. tail - 1.  A receiver holds the position of the   *)
(* value it reads next.  The source asks for a capacity of 1000; the model *)
(* scales it to ChannelCapacity so that a full backlog is within reach.    *)
(***************************************************************************)
ChannelCapacity == 2

Subscribers == {"s1", "s2"}

NoChannel == [capacity |-> 0, tail |-> 0, values |-> <<>>]

\* let (event_sender, _) = broadcast::channel(capacity): the first receiver
\* is dropped at once, the channel starts empty and without receivers.
broadcast_channel(capacity) == [capacity |-> capacity, tail |-> 0, values |-> <<>>]

\* Mutant: the backlog is unbounded, nothing is ever dropped from it.
broadcast_send_unbounded(ch, rx_cnt, value) ==
    IF rx_cnt = 0
    THEN [result |-> Err("SendError"), channel |-> ch]
    ELSE [result |-> Ok(rx_cnt),
          channel |-> [ch EXCEPT !.tail = @ + 1, !.values = Append(@, value)]]

\* Mutant: the value is stored for later receivers although nobody listens.
broadcast_send_store_always(ch, rx_cnt, value) ==
    [result |-> IF rx_cnt = 0 THEN Err("SendError") ELSE Ok(rx_cnt),
     channel |-> [ch EXCEPT !.tail = @ + 1,
                            !.values = IF Len(@) < ch.capacity THEN Append(@, value)
                                       ELSE Append(Tail(@), value)]]

\* event_sender.send(value): never waits.  Without a receiver the value is
\* handed back in the error and nothing is stored; otherwise the value is
\* stored, and the oldest value is dropped when the backlog is full.
broadcast_send(ch, rx_cnt, value) ==
    IF rx_cnt = 0
    THEN [result |-> Err("SendError"), channel |-> ch]
    ELSE [result |-> Ok(rx_cnt),
          channel |-> [ch EXCEPT !.tail = @ + 1,
                                 !.values = IF Len(@) < ch.capacity THEN Append(@, value)
                                            ELSE Append(Tail(@), value)]]

\* Mutant: a new receiver starts at the oldest value still in the backlog.
broadcast_subscribe_from_oldest(ch) == [next |-> ch.tail - Len(ch.values)]

\* event_sender.subscribe(): the new receiver starts at the tail, it sees
\* the values sent after this call only.
broadcast_subscribe(ch) == [next |-> ch.tail]

\* receiver.recv() with a value waiting: the value at the receiver's
\* position, or Lagged(missed) when that value has been dropped already; the
\* receiver then continues with the oldest value still kept.
broadcast_recv(ch, rx) ==
    LET oldest == ch.tail - Len(ch.values)
    IN  IF rx.next < oldest
        THEN [result |-> Err("Lagged"), value |-> <<>>, missed |-> oldest - rx.next,
              next |-> oldest]
        ELSE [result |-> Ok(Unit), value |-> <<ch.values[rx.next - oldest + 1]>>,
              missed |-> 0, next |-> rx.next + 1]

\* A receiver nobody has asked for yet.
Detached == [active |-> FALSE, next |-> 0, received |-> <<>>, lagged |-> 0, since |-> 0]

\* The number of live receivers of the channel.
receiver_count == Cardinality({s \in Subscribers : receivers[s].active})

\* One thing process_message did with an envelope.
Effect(op, envelope) == [op |-> op, envelope |-> envelope]

\* What the constructor call met at create() and at subscribe().
SetupOutcome(cfg, create_ok, subscribe_ok) ==
    IF ~cfg.enabled THEN "not_attempted"
    ELSE IF ~create_ok THEN "create_failed"
    ELSE IF ~subscribe_ok THEN "subscribe_failed" ELSE "subscribed"

ConsumerNew(create_ok, subscribe_ok) ==
    /\ consumerNew = <<>>
    /\ LET r == EventConsumer_new(config, create_ok, subscribe_ok)
       IN  consumerNew' = <<[config |-> config,
                             setup |-> SetupOutcome(config, create_ok, subscribe_ok),
                             result |-> r.result, subscribe |-> r.subscribe]>>
    /\ channel' = broadcast_channel(ChannelCapacity)
    /\ UNCHANGED <<config, now, process, harnessVars, producerVars, loop, stream, handled,
                   broadcast, sleeps, effects, receivers, serviceVars, taskVars>>

HasConsumer == consumerNew # <<>> /\ consumerNew[1].result.ok
event_consumer == consumerNew[1].result.value[1]

(***************************************************************************)
(* Producer and consumer built from one configuration, once as loaded and  *)
(* once with the per-entity topic options set: the topic the producer      *)
(* gives an event and the topics the consumer subscribes to.               *)
(***************************************************************************)
Topology(cfg, event) ==
    [config |-> cfg,
     topic |-> get_topic_for_event([producer |-> Some("FutureProducer"), config |-> cfg],
                                   event),
     subscribe |-> EventConsumer_new(cfg, TRUE, TRUE).subscribe]

ApplyTopicOptions(event, options) ==
    /\ topology = <<>>
    /\ topology' = <<[event |-> event,
                      loaded |-> Topology(config, event),
                      changed |-> Topology(with_topic_options(config, options), event)]>>
    /\ UNCHANGED <<config, now, process, routed, codec, producerVars, consumerVars,
                   serviceVars, taskVars>>

(***************************************************************************)
(* The codec applied once to any envelope: what the producer writes       *)
(* (serde_json::to_string) and what the consumer reads back from it        *)
(* (serde_json::from_str).                                                 *)
(***************************************************************************)
TodoUpdatedChanges ==
    [variant : {"TodoUpdated"}, todo_id : {"u1"}, title : {None, Some("x")},
     description : {None, Some("y")}, completed : {None, Some(TRUE)},
     category_id : {None, Some("u2")}, priority : {None, Some(3)},
     due_date : {None, Some(1)}, tags : {None, Some(<<>>), Some(<<"x", "y">>)}]

CodecEnvelopes ==
    [metadata : [event_id : {"e1"}, timestamp : Instants, user_id : {None, Some("u2")},
                 correlation_id : {None, Some("x")}],
     event : DomainEvent \cup TodoUpdatedChanges]

RoundTrip(envelope) ==
    /\ codec = <<>>
    /\ codec' = <<[envelope |-> envelope, payload |-> to_string(envelope),
                   decoded |-> from_str(to_string(envelope))]>>
    /\ UNCHANGED <<config, now, process, routed, topology, producerVars, consumerVars, serviceVars, taskVars>>

(***************************************************************************)
(* The stream's items: a message (with its payload bytes, if any), an      *)
(* error, or the end of the stream.  Bytes are [utf8, doc]: whether they   *)
(* are UTF-8 and the JSON document the text parses to.                     *)
(***************************************************************************)
Message(payload) == [kind |-> "message", payload |-> payload, error |-> "-"]
StreamError(e) == [kind |-> "error", payload |-> None, error |-> e]
StreamEnd == [kind |-> "end", payload |-> None, error |-> "-"]
Bytes(doc) == [utf8 |-> TRUE, doc |-> doc]

\* Mutant: the `_` arm of the match rejects the events it has no arm for.
handle_event_rejecting_others(self, envelope) ==
    IF envelope.event.variant \in
           {"UserRegistered", "UserLoggedIn", "TodoCreated", "TodoCompleted", "TodoDeleted",
            "TodosDeletedBatch", "TodosUpdatedBatch", "CategoryCreated", "TagCreated"}
    THEN Ok(Unit)
    ELSE Err("ConsumerError")

\* handle_event: every arm of the match only logs; the result is always Ok.
handle_event(self, envelope) == Ok(Unit)

\* Mutant: the envelope is sent to the subscribers before handle_event runs.
process_message_send_first(self, message) ==
    IF message.payload = None \/ ~message.payload[1].utf8
    THEN [result |-> IF message.payload = None THEN Ok(Unit) ELSE Err("ConsumerError"),
          handled |-> <<>>, broadcast |-> <<>>, effects |-> <<>>]
    ELSE LET envelope == from_str(message.payload[1].doc)
         IN  IF envelope = None
             THEN [result |-> Err("SerializationError"), handled |-> <<>>,
                   broadcast |-> <<>>, effects |-> <<>>]
             ELSE [result |-> Ok(Unit), handled |-> envelope, broadcast |-> envelope,
                   effects |-> <<Effect("send", envelope[1]),
                                 Effect("handle_event", envelope[1])>>]

\* process_message: the result, and the envelope handled and broadcast (if any).
\* The result of event_sender.send is only logged, so the envelope counts as
\* broadcast whether or not a receiver exists.
process_message(self, message) ==
    IF message.payload = None
    THEN [result |-> Ok(Unit), handled |-> <<>>, broadcast |-> <<>>,
             effects |-> <<>>]
    ELSE LET payload == message.payload[1]
         IN  IF ~payload.utf8
             THEN [result |-> Err("ConsumerError"), handled |-> <<>>, broadcast |-> <<>>,
             effects |-> <<>>]
             ELSE LET envelope == from_str(payload.doc)
                  IN  IF envelope = None
                      THEN [result |-> Err("SerializationError"), handled |-> <<>>,
                            broadcast |-> <<>>, effects |-> <<>>]
                      ELSE IF ~handle_event(self, envelope[1]).ok
                           THEN [result |-> handle_event(self, envelope[1]),
                                 handled |-> envelope, broadcast |-> <<>>,
                                 effects |-> <<Effect("handle_event", envelope[1])>>]
                           ELSE [result |-> Ok(Unit), handled |-> envelope,
                                 broadcast |-> envelope,
                                 effects |-> <<Effect("handle_event", envelope[1]),
                                               Effect("send", envelope[1])>>]

\* Mutant: the check of self.consumer is missing, the loop is always entered.
start_consuming_unguarded(self) == [pc |-> "polling", result |-> None]

\* start_consuming up to the loop: the early return of a disabled consumer.
start_consuming(self) ==
    IF self.consumer = None
    THEN [pc |-> "returned", result |-> Some(Ok(Unit))]
    ELSE [pc |-> "polling", result |-> None]

BackoffSecs == 5

\* The loop's turn for a message or for the end of the stream.
loop_turn_other(self, item) ==
    IF item.kind = "end"
    THEN [pc |-> "returned", result |-> Some(Ok(Unit)), sleep |-> <<>>,
          outcome |-> "stream_ended", handled |-> <<>>, broadcast |-> <<>>,
             effects |-> <<>>]
    ELSE LET r == process_message(self, item)
         IN  [pc |-> "polling", result |-> None, sleep |-> <<>>,
              outcome |-> IF r.result.ok THEN "Ok" ELSE r.result.error,
              handled |-> r.handled, broadcast |-> r.broadcast,
                 effects |-> r.effects]

\* Mutant: an error of process_message is propagated with `?` and ends the loop.
loop_turn_propagating(self, item) ==
    LET turn == loop_turn_other(self, item)
    IN  IF item.kind = "message" /\ turn.outcome # "Ok"
        THEN [turn EXCEPT !.pc = "returned", !.result = Some(Err(turn.outcome))]
        ELSE IF item.kind = "error"
             THEN [pc |-> IF item.error = "BrokerTransportFailure" THEN "backoff"
                          ELSE "polling",
                   result |-> None,
                   sleep |-> IF item.error = "BrokerTransportFailure" THEN <<5>> ELSE <<>>,
                   outcome |-> "logged", handled |-> <<>>, broadcast |-> <<>>,
             effects |-> <<>>]
             ELSE turn

\* Mutant: a transport failure is logged like any other error, without the sleep.
loop_turn_no_backoff(self, item) ==
    IF item.kind = "error"
    THEN [pc |-> "polling", result |-> None, sleep |-> <<>>,
          outcome |-> "error_logged", handled |-> <<>>, broadcast |-> <<>>,
             effects |-> <<>>]
    ELSE loop_turn_other(self, item)

\* Mutant: an error that is no transport failure breaks out of the loop.
loop_turn_break_on_error(self, item) ==
    IF item.kind = "error"
    THEN IF item.error = "BrokerTransportFailure"
         THEN [pc |-> "backoff", result |-> None, sleep |-> <<5>>,
               outcome |-> "retry", handled |-> <<>>, broadcast |-> <<>>,
             effects |-> <<>>]
         ELSE [pc |-> "returned", result |-> Some(Ok(Unit)), sleep |-> <<>>,
               outcome |-> "error_logged", handled |-> <<>>, broadcast |-> <<>>,
             effects |-> <<>>]
    ELSE loop_turn_other(self, item)

\* Mutant: the loop gives up at the first transport failure and returns.
loop_turn_give_up_on_failure(self, item) ==
    IF item.kind = "error" /\ item.error = "BrokerTransportFailure"
    THEN [pc |-> "returned", result |-> Some(Ok(Unit)), sleep |-> <<>>,
          outcome |-> "gave_up", handled |-> <<>>, broadcast |-> <<>>,
          effects |-> <<>>]
    ELSE loop_turn_break_on_error(self, item)

\* One turn of `while let Some(message) = stream.next().await`: where the loop
\* goes next, what it slept, and what process_message did.
loop_turn(self, item) ==
    CASE item.kind = "end" ->
            [pc |-> "returned", result |-> Some(Ok(Unit)), sleep |-> <<>>,
             outcome |-> "stream_ended", handled |-> <<>>, broadcast |-> <<>>,
             effects |-> <<>>]
      [] item.kind = "message" ->
            LET r == process_message(self, item)
            IN  [pc |-> "polling", result |-> None, sleep |-> <<>>,
                 outcome |-> IF r.result.ok THEN "Ok" ELSE r.result.error,
                 handled |-> r.handled, broadcast |-> r.broadcast,
                 effects |-> r.effects]
      [] item.kind = "error" ->
            IF item.error = "BrokerTransportFailure"
            THEN [pc |-> "backoff", result |-> None, sleep |-> <<BackoffSecs>>,
                  outcome |-> "retry", handled |-> <<>>, broadcast |-> <<>>,
             effects |-> <<>>]
            ELSE [pc |-> "polling", result |-> None, sleep |-> <<>>,
                  outcome |-> "error_logged", handled |-> <<>>, broadcast |-> <<>>,
             effects |-> <<>>]

StartConsuming ==
    /\ HasConsumer
    /\ loop.pc = "not_started"
    /\ loop' = start_consuming(event_consumer)
    /\ UNCHANGED <<config, now, process, harnessVars, producerVars, consumerNew, loopVars,
                   receivers, serviceVars, taskVars>>

\* stream.next() yields an item and the loop body runs for it.
StreamNext(item) ==
    /\ loop.pc = "polling"
    /\ Len(stream) < MaxStream
    /\ LET turn == loop_turn(event_consumer, item)
       IN  /\ loop' = [pc |-> turn.pc, result |-> turn.result]
           /\ stream' = Append(stream, [item |-> item, outcome |-> turn.outcome])
           /\ handled' = handled \o turn.handled
           /\ broadcast' = broadcast \o turn.broadcast
           /\ sleeps' = sleeps \o turn.sleep
           /\ effects' = effects \o turn.effects
           /\ channel' = IF turn.broadcast = <<>> THEN channel
                         ELSE broadcast_send(channel, receiver_count,
                                             turn.broadcast[1]).channel
    /\ UNCHANGED <<config, now, process, harnessVars, producerVars, consumerNew, receivers, serviceVars, taskVars>>

\* tokio::time::sleep completes and the loop polls the stream again.
BackoffElapsed ==
    /\ loop.pc = "backoff"
    /\ loop' = [loop EXCEPT !.pc = "polling"]
    /\ UNCHANGED <<config, now, process, harnessVars, producerVars, consumerNew, loopVars,
                   receivers, serviceVars, taskVars>>

(***************************************************************************)
(* The loop body step by step: stream.next() yields, process_message runs  *)
(* up to the return of handle_event, then up to its own return.  The loop  *)
(* awaits process_message, so it is "processing" in between.               *)
(***************************************************************************)
\* Mutant: the loop spawns process_message and polls the stream again at once.
read_turn_spawning(self, item) ==
    IF item.kind = "message"
    THEN [pc |-> "polling", result |-> None, sleep |-> <<>>, outcome |-> "spawned",
          handled |-> <<>>, broadcast |-> <<>>, effects |-> <<>>]
    ELSE loop_turn(self, item)

\* What the loop does with the item stream.next() yielded: a message is handed
\* to process_message, which the loop awaits; the other items as in loop_turn.
read_turn(self, item) ==
    IF item.kind = "message"
    THEN [pc |-> "processing", result |-> None, sleep |-> <<>>, outcome |-> "awaited",
          handled |-> <<>>, broadcast |-> <<>>, effects |-> <<>>]
    ELSE loop_turn(self, item)

\* The loop is back at stream.next() when the process_message it awaits returns.
AfterProcessMessage == IF loop.pc = "processing" THEN [loop EXCEPT !.pc = "polling"] ELSE loop

ReadMessage(item) ==
    /\ loop.pc = "polling"
    /\ Len(stream) < MaxStream
    /\ LET turn == read_turn(event_consumer, item)
       IN  /\ loop' = [pc |-> turn.pc, result |-> turn.result]
           /\ stream' = Append(stream, [item |-> item, outcome |-> turn.outcome])
           /\ sleeps' = sleeps \o turn.sleep
    /\ inflight' = IF item.kind = "message"
                   THEN Append(inflight, [message |-> item, stage |-> "handle_event"])
                   ELSE inflight
    /\ UNCHANGED <<config, now, process, harnessVars, producerVars, consumerNew, handled,
                   broadcast, effects, channel, receivers, serviceVars, runs, tasks>>

\* process_message runs for the oldest message in flight up to the return of
\* handle_event, or to its own return when the message is skipped.
HandleEventReturns ==
    /\ inflight # <<>>
    /\ Head(inflight).stage = "handle_event"
    /\ LET r == process_message(event_consumer, Head(inflight).message)
       IN  /\ handled' = handled \o r.handled
           /\ effects' = effects \o (IF r.effects = <<>> THEN <<>> ELSE <<r.effects[1]>>)
           /\ IF r.broadcast = <<>>
              THEN inflight' = Tail(inflight) /\ loop' = AfterProcessMessage
              ELSE /\ inflight' = <<[Head(inflight) EXCEPT !.stage = "send"]>>
                                      \o Tail(inflight)
                   /\ loop' = loop
    /\ UNCHANGED <<config, now, process, harnessVars, producerVars, consumerNew, stream,
                   broadcast, sleeps, channel, receivers, serviceVars, runs, tasks>>

\* event_sender.send(envelope) and the return of process_message.
SendReturns ==
    /\ inflight # <<>>
    /\ Head(inflight).stage = "send"
    /\ LET r == process_message(event_consumer, Head(inflight).message)
       IN  /\ broadcast' = broadcast \o r.broadcast
           /\ effects' = Append(effects, r.effects[2])
           /\ channel' = broadcast_send(channel, receiver_count, r.broadcast[1]).channel
    /\ inflight' = Tail(inflight)
    /\ loop' = AfterProcessMessage
    /\ UNCHANGED <<config, now, process, harnessVars, producerVars, consumerNew, stream,
                   handled, sleeps, receivers, serviceVars, runs, tasks>>

\* A task calls EventConsumer::subscribe.  since is the number of envelopes
\* the loop had broadcast by then.
Subscribe(s) ==
    /\ HasConsumer
    /\ ~receivers[s].active
    /\ receivers' = [receivers EXCEPT ![s] =
                        [active |-> TRUE, next |-> broadcast_subscribe(channel).next,
                         received |-> <<>>, lagged |-> 0, since |-> Len(broadcast)]]
    /\ UNCHANGED <<config, now, process, harnessVars, producerVars, consumerNew, loop,
                   loopVars, serviceVars, taskVars>>

\* A subscriber's recv() completes: with the next envelope, or with Lagged.
Recv(s) ==
    /\ receivers[s].active
    /\ receivers[s].next < channel.tail
    /\ LET r == broadcast_recv(channel, receivers[s])
       IN  receivers' = [receivers EXCEPT ![s].next = r.next,
                                          ![s].received = @ \o r.value,
                                          ![s].lagged = @ + r.missed]
    /\ UNCHANGED <<config, now, process, harnessVars, producerVars, consumerNew, loop,
                   loopVars, serviceVars, taskVars>>

\* The envelopes and items the broker delivers in this model.
StreamEnvelopes ==
    {[metadata |-> [event_id |-> "e1", timestamp |-> 0, user_id |-> Some("u2"),
                    correlation_id |-> None],
      event |-> [variant |-> "TodoCreated", todo_id |-> "u1", title |-> "x",
                 user_id |-> "u2"]],
     [metadata |-> [event_id |-> "e2", timestamp |-> 1, user_id |-> None,
                    correlation_id |-> Some("x")],
      event |-> [variant |-> "TagDeleted", tag_id |-> "u2", deleted_at |-> 1]]}

ValidMessages == {Message(Some(Bytes(to_string(e)))) : e \in StreamEnvelopes}

UnknownEventType ==
    JObj([metadata |-> serialize_struct(MetadataSchema,
                          [event_id |-> "e1", timestamp |-> 0, user_id |-> None,
                           correlation_id |-> None]),
          event |-> JObj([event_type |-> JStr("TodoArchived"),
                          data |-> JObj([todo_id |-> JStr("u1")])])])

MissingField ==
    JObj([metadata |-> serialize_struct(MetadataSchema,
                          [event_id |-> "e1", timestamp |-> 0, user_id |-> None,
                           correlation_id |-> None]),
          event |-> JObj([event_type |-> JStr("TodoCreated"),
                          data |-> JObj([todo_id |-> JStr("u1")])])])

MalformedMessages ==
    {Message(None),
     Message(Some([utf8 |-> FALSE, doc |-> JInvalid])),
     Message(Some(Bytes(JInvalid))),
     Message(Some(Bytes(UnknownEventType))),
     Message(Some(Bytes(MissingField)))}

StreamErrors == {StreamError("BrokerTransportFailure"), StreamError("PartitionEOF")}

StreamItems == ValidMessages \cup MalformedMessages \cup StreamErrors \cup {StreamEnd}

(***************************************************************************)
(* The HTTP service around the event layer (routes/mod.rs, handlers/mod.rs,*)
(* error/mod.rs).  The todos table is a set of rows [id, title, completed] *)
(* with the number of rows inserted so far; the other columns are carried  *)
(* along unchanged by every handler and are left out.  env is what the     *)
(* request meets outside the process: whether the database answers and     *)
(* what the broker would do with a send.                                   *)
(***************************************************************************)
MaxTodos == 2

EmptyPool == [todos |-> {}, serial |-> 0]
todo_id(n) == "t" \o ToString(n)
TodoIds == {todo_id(n) : n \in 1..MaxTodos}

Response(status, body) == [status |-> status, body |-> body]
NoBody == [text |-> ""]
AppError(kind, msg) == [kind |-> kind, msg |-> msg]
NotFound(id) == AppError("NotFound", "Todo with id " \o id \o " not found")

\* impl IntoResponse for AppError.
into_response(error) ==
    CASE error.kind = "Database" -> Response(500, [error |-> "Database error occurred"])
      [] error.kind = "Validation" -> Response(400, [error |-> error.msg])
      [] error.kind = "NotFound" -> Response(404, [error |-> error.msg])
      [] error.kind = "Internal" -> Response(500, [error |-> "Internal server error"])

\* create_routes: the state every handler is given.
create_routes(pool, producer) == [db_pool |-> pool, kafka_producer |-> producer]

\* The rows of the table with the given id (none or one).
Rows(pool, id) == {row \in pool.todos : row.id = id}

\* Mutant: the handler publishes TodoCreated and propagates a failed publish.
create_todo_publish_or_fail(state, payload, env) ==
    IF payload.title = ""
    THEN [response |-> into_response(AppError("Validation", "title: length")),
          pool |-> state.db_pool]
    ELSE IF ~env.db_ok
         THEN [response |-> into_response(AppError("Database", "-")),
               pool |-> state.db_pool]
         ELSE LET todo == [id |-> todo_id(state.db_pool.serial + 1),
                           title |-> payload.title, completed |-> FALSE]
                  pool == [todos |-> state.db_pool.todos \cup {todo},
                           serial |-> state.db_pool.serial + 1]
              IN  IF state.kafka_producer.producer # None /\ env.broker # "delivered"
                  THEN [response |-> into_response(AppError("Internal", "publish")),
                        pool |-> pool]
                  ELSE [response |-> Response(201, todo), pool |-> pool]

\* create_todo: validate, INSERT ... RETURNING *, read the row back, 201.
create_todo(state, payload, env) ==
    IF payload.title = ""
    THEN [response |-> into_response(AppError("Validation", "title: length")),
          pool |-> state.db_pool]
    ELSE IF ~env.db_ok
         THEN [response |-> into_response(AppError("Database", "-")),
               pool |-> state.db_pool]
         ELSE LET todo == [id |-> todo_id(state.db_pool.serial + 1),
                           title |-> payload.title, completed |-> FALSE]
              IN  [response |-> Response(201, todo),
                   pool |-> [todos |-> state.db_pool.todos \cup {todo},
                             serial |-> state.db_pool.serial + 1]]

\* get_todos without filters: the rows and their count.
get_todos(state, env) ==
    IF ~env.db_ok
    THEN [response |-> into_response(AppError("Database", "-")), pool |-> state.db_pool]
    ELSE [response |-> Response(200, [todos |-> state.db_pool.todos,
                                      total |-> Cardinality(state.db_pool.todos)]),
          pool |-> state.db_pool]

\* get_todo: every error of the lookup is mapped to NotFound.
get_todo(state, id, env) ==
    IF env.db_ok /\ Rows(state.db_pool, id) # {}
    THEN [response |-> Response(200, CHOOSE row \in Rows(state.db_pool, id) : TRUE),
          pool |-> state.db_pool]
    ELSE [response |-> into_response(NotFound(id)), pool |-> state.db_pool]

\* update_todo: validate, SELECT, UPDATE ... RETURNING *, read the row back.
update_todo(state, id, payload, env) ==
    IF payload.title = Some("")
    THEN [response |-> into_response(AppError("Validation", "title: length")),
          pool |-> state.db_pool]
    ELSE IF ~env.db_ok
         THEN [response |-> into_response(AppError("Database", "-")),
               pool |-> state.db_pool]
         ELSE IF Rows(state.db_pool, id) = {}
              THEN [response |-> into_response(NotFound(id)), pool |-> state.db_pool]
              ELSE LET existing_todo == CHOOSE row \in Rows(state.db_pool, id) : TRUE
                       updated_todo ==
                           [id |-> id,
                            title |-> IF IsSome(payload.title) THEN payload.title[1]
                                      ELSE existing_todo.title,
                            completed |-> IF IsSome(payload.completed)
                                          THEN payload.completed[1]
                                          ELSE existing_todo.completed]
                   IN  [response |-> Response(200, updated_todo),
                        pool |-> [state.db_pool EXCEPT
                                     !.todos = (@ \ {existing_todo}) \cup {updated_todo}]]

\* delete_todo: DELETE, NotFound when no row was affected, else 204.
delete_todo(state, id, env) ==
    IF ~env.db_ok
    THEN [response |-> into_response(AppError("Database", "-")), pool |-> state.db_pool]
    ELSE IF Rows(state.db_pool, id) = {}
         THEN [response |-> into_response(NotFound(id)), pool |-> state.db_pool]
         ELSE [response |-> Response(204, NoBody),
               pool |-> [state.db_pool EXCEPT !.todos = @ \ Rows(state.db_pool, id)]]

health_check == Response(200, [text |-> "OK"])

\* The Router built by create_routes: the route table, and 404 for every
\* method and path it does not name (the user, category, tag, batch and
\* statistics routes are not registered).
Router(state, request, env) ==
    CASE request.route = "POST /api/todos" -> create_todo(state, request.payload, env)
      [] request.route = "GET /api/todos" -> get_todos(state, env)
      [] request.route = "GET /api/todos/{id}" -> get_todo(state, request.id, env)
      [] request.route = "PATCH /api/todos/{id}" ->
            update_todo(state, request.id, request.payload, env)
      [] request.route = "DELETE /api/todos/{id}" -> delete_todo(state, request.id, env)
      [] request.route = "GET /health" -> [response |-> health_check, pool |-> state.db_pool]
      [] OTHER -> [response |-> Response(404, NoBody), pool |-> state.db_pool]

Request(route, id, payload) == [route |-> route, id |-> id, payload |-> payload]
NoPayload == [title |-> None, completed |-> None]
Requests ==
    {Request("POST /api/todos", "-", [title |-> t]) : t \in {"", "x"}}
    \cup {Request("GET /api/todos", "-", NoPayload), Request("GET /health", "-", NoPayload),
          Request("POST /api/users/register", "-", NoPayload),
          Request("POST /api/categories", "-", NoPayload)}
    \cup {Request(r, id, NoPayload) :
             r \in {"GET /api/todos/{id}", "DELETE /api/todos/{id}"}, id \in TodoIds}
    \cup {Request("PATCH /api/todos/{id}", id, p) :
             id \in TodoIds,
             p \in {[title |-> Some(""), completed |-> None],
                    [title |-> None, completed |-> Some(TRUE)]}}

\* What a request can meet: the database answers or not, and the broker
\* delivers, rejects or times out a send.
Envs ==
    {[db_ok |-> TRUE, broker |-> b] : b \in SendOutcomes}
    \cup {[db_ok |-> FALSE, broker |-> "rejected"]}

\* The producer of the reference run: the same configuration with the event
\* layer switched off.
reference_producer ==
    EventProducer_new([config EXCEPT !.enabled = FALSE], FALSE).value[1]

\* The service answers one request.  The same request is answered on a
\* reference run, which differs in the producer (disabled) and in the broker
\* (not asked) only.
HandleRequest(request, env) ==
    /\ process = "serving"
    /\ request.route = "POST /api/todos" => db_pool.serial < MaxTodos
    /\ LET r == Router(create_routes(db_pool, kafka_producer), request, env)
           ref == Router(create_routes(db_pool, reference_producer), request,
                         [env EXCEPT !.broker = "not_asked"])
       IN  /\ db_pool' = r.pool
           /\ http' = <<[request |-> request, db_ok |-> env.db_ok, broker |-> env.broker,
                         enabled |-> EventProducer_is_enabled(kafka_producer),
                         response |-> r.response, reference |-> ref]>>
    /\ UNCHANGED <<config, now, process, harnessVars, producerVars, consumerVars, taskVars>>

Init ==
    /\ config \in KafkaConfig
    /\ now = 0
    /\ producerNew = <<>>
    /\ calls = <<>>
    /\ sent = <<>>
    /\ routed = <<>>
    /\ consumerNew = <<>>
    /\ loop = [pc |-> "not_started", result |-> None]
    /\ stream = <<>>
    /\ handled = <<>>
    /\ broadcast = <<>>
    /\ sleeps = <<>>
    /\ effects = <<>>
    /\ channel = NoChannel
    /\ receivers = [s \in Subscribers |-> Detached]
    /\ process = "starting"
    /\ codec = <<>>
    /\ topology = <<>>
    /\ db_pool = EmptyPool
    /\ http = <<>>
    /\ inflight = <<>>
    /\ runs = 0
    /\ tasks = <<>>

\* main() as far as the event layer goes, and calls of publish_event on the
\* producer it hands to the routes, which exist once the server serves.
NextProducer ==
    \/ \E create_ok \in BOOLEAN : main_producer_new(create_ok)
    \/ main_producer_fallback
    \/ \E bind_ok \in BOOLEAN : main_serve(bind_ok)
    \/ /\ process = "serving"
       /\ \E event \in PublishedEvents, user_id \in Actors : PublishCall(event, user_id)
    \/ \E id \in 1..MaxPublishes, outcome \in SendOutcomes : SendComplete(id, outcome)

NextRouter == \E event \in DomainEvent : Route(event)

\* main() and the requests the server answers once it serves.
NextService ==
    \/ \E create_ok \in BOOLEAN : main_producer_new(create_ok)
    \/ main_producer_fallback
    \/ \E bind_ok \in BOOLEAN : main_serve(bind_ok)
    \/ \E request \in Requests, env \in Envs : HandleRequest(request, env)

NextCodec == \E envelope \in CodecEnvelopes : RoundTrip(envelope)

NextTopics ==
    \E event \in DomainEvent, options \in TopicOptions : ApplyTopicOptions(event, options)

NextConsumer ==
    \/ \E create_ok, subscribe_ok \in BOOLEAN : ConsumerNew(create_ok, subscribe_ok)
    \/ StartConsuming
    \/ \E item \in StreamItems : StreamNext(item)
    \/ BackoffElapsed

\* The broker and the records it has taken: record k of sent is acknowledged
\* when its send was delivered, and has reached the consumer when the stream has
\* yielded a message with its payload.
Acknowledged(k) == calls[sent[k].call].outcomes = <<"delivered">>
Delivered(k) ==
    \E i \in 1..Len(stream) : stream[i].item = Message(Some(Bytes(sent[k].record.payload)))

\* The consumer's stream yields an acknowledged record of a topic the consumer
\* has subscribed to, once, and the loop body runs for it.
BrokerDeliver(k) ==
    /\ k \in 1..Len(sent)
    /\ Acknowledged(k)
    /\ ~Delivered(k)
    /\ HasConsumer
    /\ IsSome(consumerNew[1].subscribe)
    /\ \E i \in 1..Len(consumerNew[1].subscribe[1]) :
          consumerNew[1].subscribe[1][i] = sent[k].record.topic
    /\ StreamNext(Message(Some(Bytes(sent[k].record.payload))))

\* The states in which BrokerDeliver(k) can happen.
DeliveryDue(k) ==
    /\ k \in 1..Len(sent)
    /\ Acknowledged(k)
    /\ ~Delivered(k)
    /\ HasConsumer
    /\ IsSome(consumerNew[1].subscribe)
    /\ \E i \in 1..Len(consumerNew[1].subscribe[1]) :
          consumerNew[1].subscribe[1][i] = sent[k].record.topic
    /\ loop.pc = "polling"
    /\ Len(stream) < MaxStream

\* The messages of the stream while subscribers listen: the decodable ones and
\* one that is skipped.
BroadcastItems == ValidMessages \cup {Message(Some(Bytes(JInvalid)))}

(***************************************************************************)
(* run_event_consumer: the tasks it spawns.  A task is                     *)
(* [pc, result, turns]: where its start_consuming is, what it returned and *)
(* how many items it has taken from the stream.  Every task runs on a      *)
(* clone of the consumer: the same Arc<StreamConsumer> and the same sender.*)
(***************************************************************************)
MaxRuns == 2

Task(pc, result, turns) == [pc |-> pc, result |-> result, turns |-> turns]

\* Mutant: the check of is_enabled is missing, a task is spawned in any case.
run_event_consumer_unguarded(consumer) == <<Task("spawned", None, 0)>>

\* run_event_consumer: the tasks this call spawns.
run_event_consumer(consumer) ==
    IF ~EventConsumer_is_enabled(consumer) THEN <<>> ELSE <<Task("spawned", None, 0)>>

RunEventConsumer ==
    /\ HasConsumer
    /\ runs < MaxRuns
    /\ runs' = runs + 1
    /\ tasks' = tasks \o run_event_consumer(event_consumer)
    /\ UNCHANGED <<config, now, process, harnessVars, producerVars, consumerVars,
                   serviceVars, inflight>>

\* A spawned task is scheduled and enters start_consuming.
TaskStart(i) ==
    /\ i \in 1..Len(tasks)
    /\ tasks[i].pc = "spawned"
    /\ LET started == start_consuming(event_consumer)
       IN  tasks' = [tasks EXCEPT ![i] = Task(started.pc, started.result, 0)]
    /\ UNCHANGED <<config, now, process, harnessVars, producerVars, consumerVars,
                   serviceVars, inflight, runs>>

\* The stream of task i yields an item of the shared consumer and the loop
\* body of that task runs for it.
TaskNext(i, item) ==
    /\ i \in 1..Len(tasks)
    /\ tasks[i].pc = "polling"
    /\ Len(stream) < MaxStream
    /\ LET turn == loop_turn(event_consumer, item)
       IN  /\ tasks' = [tasks EXCEPT ![i] = Task(turn.pc, turn.result, @.turns + 1)]
           /\ stream' = Append(stream, [item |-> item, outcome |-> turn.outcome,
                                        task |-> i])
           /\ handled' = handled \o turn.handled
           /\ broadcast' = broadcast \o turn.broadcast
           /\ sleeps' = sleeps \o turn.sleep
           /\ effects' = effects \o turn.effects
           /\ channel' = IF turn.broadcast = <<>> THEN channel
                         ELSE broadcast_send(channel, receiver_count,
                                             turn.broadcast[1]).channel
    /\ UNCHANGED <<config, now, process, harnessVars, producerVars, consumerNew, loop,
                   receivers, serviceVars, inflight, runs>>

TaskBackoffElapsed(i) ==
    /\ i \in 1..Len(tasks)
    /\ tasks[i].pc = "backoff"
    /\ tasks' = [tasks EXCEPT ![i].pc = "polling"]
    /\ UNCHANGED <<config, now, process, harnessVars, producerVars, consumerVars,
                   serviceVars, inflight, runs>>

\* The items the stream yields to the spawned tasks: one event and one failure.
TaskMessage ==
    Message(Some(Bytes(to_string(
        CHOOSE e \in StreamEnvelopes : e.event.variant = "TodoCreated"))))

TaskItems == {TaskMessage, StreamError("BrokerTransportFailure")}

\* The callers of run_event_consumer, the tasks and one subscriber.
NextTasks ==
    \/ \E create_ok, subscribe_ok \in BOOLEAN : ConsumerNew(create_ok, subscribe_ok)
    \/ RunEventConsumer
    \/ \E i \in 1..MaxRuns : TaskStart(i)
    \/ \E i \in 1..MaxRuns, item \in TaskItems : TaskNext(i, item)
    \/ \E i \in 1..MaxRuns : TaskBackoffElapsed(i)
    \/ Subscribe("s1")

\* The items the stream yields while the loop body is followed step by step.
StepItems ==
    ValidMessages \cup {Message(Some(Bytes(JInvalid))), StreamError("BrokerTransportFailure")}

\* The loop with the steps of its body.  Nothing makes handle_event return:
\* a handler may take arbitrarily long.
NextSteps ==
    \/ \E create_ok, subscribe_ok \in BOOLEAN : ConsumerNew(create_ok, subscribe_ok)
    \/ StartConsuming
    \/ \E item \in StepItems : ReadMessage(item)
    \/ HandleEventReturns
    \/ SendReturns
    \/ BackoffElapsed

\* The loop together with the subscribers of its broadcast channel.
NextBroadcast ==
    \/ \E create_ok, subscribe_ok \in BOOLEAN : ConsumerNew(create_ok, subscribe_ok)
    \/ StartConsuming
    \/ \E item \in BroadcastItems : StreamNext(item)
    \/ \E s \in Subscribers : Subscribe(s)
    \/ \E s \in Subscribers : Recv(s)

\* The events published end to end, and how many of them.
MaxEndToEnd == 1
EndToEndEvents ==
    {[variant |-> "TodoCreated", todo_id |-> "u1", title |-> "x", user_id |-> "u2"],
     [variant |-> "UserRegistered", user_id |-> "u2", username |-> "x"]}

\* Producer, broker, consumer and subscribers together.
NextEndToEnd ==
    \/ \E create_ok \in BOOLEAN : main_producer_new(create_ok)
    \/ \E create_ok, subscribe_ok \in BOOLEAN : ConsumerNew(create_ok, subscribe_ok)
    \/ StartConsuming
    \/ \E s \in Subscribers : Subscribe(s)
    \/ \E event \in EndToEndEvents, user_id \in Actors :
          Len(calls) < MaxEndToEnd /\ PublishCall(event, user_id)
    \/ \E id \in 1..MaxPublishes, outcome \in SendOutcomes : SendComplete(id, outcome)
    \/ \E k \in 1..MaxPublishes : BrokerDeliver(k)
    \/ \E s \in Subscribers : Recv(s)

\* The send future resolves within its timeout, the loop task is scheduled,
\* the broker passes on what it acknowledged, and subscribers keep receiving.
\* The fairness of BrokerDeliver(k) is written with its enabling condition: a
\* delivery that is due does not stay due forever.
FairEndToEnd ==
    /\ WF_vars(StartConsuming)
    /\ \A id \in 1..MaxPublishes : WF_vars(\E outcome \in SendOutcomes : SendComplete(id, outcome))
    /\ \A k \in 1..MaxPublishes : []<>(~DeliveryDue(k))
    /\ \A s \in Subscribers : WF_vars(Recv(s))

Next ==
    \/ NextProducer \/ NextRouter \/ NextCodec \/ NextConsumer \/ NextBroadcast
    \/ NextEndToEnd \/ NextService \/ NextSteps \/ NextTopics \/ NextTasks

Spec == Init /\ [][Next]_vars
SpecProducer == Init /\ [][NextProducer]_vars
SpecConsumer == Init /\ [][NextConsumer]_vars
SpecRouter == Init /\ [][NextRouter]_vars
SpecCodec == Init /\ [][NextCodec]_vars
SpecService == Init /\ [][NextService]_vars
SpecSteps == Init /\ [][NextSteps]_vars
SpecTopics == Init /\ [][NextTopics]_vars
SpecTasks == Init /\ [][NextTasks]_vars
SpecBroadcast == Init /\ [][NextBroadcast]_vars
SpecEndToEnd == Init /\ [][NextEndToEnd]_vars /\ FairEndToEnd

(***************************************************************************)
(* Properties.                                                             *)
(***************************************************************************)
ProducerIsBuilt(enabled) == HasProducer /\ kafka_producer.config.enabled = enabled
CallIds == 1..Len(calls)
SendsOf(id) == {i \in 1..Len(sent) : sent[i].call = id}

\* C1: a producer constructed from a configuration with enabled = false returns
\* Ok(()) from every publish_event call, whatever the event, the actor id and the
\* earlier calls, and hands nothing to the broker client.
C1_DisabledPublishIsNoop ==
    ProducerIsBuilt(FALSE) =>
        /\ sent = <<>>
        /\ \A id \in CallIds :
              calls[id].pc = "returned" /\ calls[id].result = Some(Ok(Unit))

C1_Witness ==
    /\ ProducerIsBuilt(FALSE)
    /\ Len(calls) >= 2
    /\ calls[1].event # calls[2].event
    /\ calls[1].user_id # calls[2].user_id

\* C2: when the broker client cannot be created for an enabled configuration,
\* EventProducer::new still returns Ok, with a producer that is disabled.
C2_NewDegradesOnCreateFailure ==
    \A i \in 1..Len(producerNew) :
        producerNew[i].create = "failed" =>
            /\ producerNew[i].result.ok
            /\ ~EventProducer_is_enabled(producerNew[i].result.value[1])

\* C3: EventConsumer::new returns Ok on every path, and when the client creation
\* or the topic subscription failed the consumer it returns is disabled.
C3_ConsumerNewNeverFails ==
    \A i \in 1..Len(consumerNew) :
        /\ consumerNew[i].result.ok
        /\ consumerNew[i].setup \in {"create_failed", "subscribe_failed"} =>
              ~EventConsumer_is_enabled(consumerNew[i].result.value[1])

C3_Witness ==
    /\ consumerNew # <<>>
    /\ consumerNew[1].config.enabled
    /\ consumerNew[1].setup = "subscribe_failed"
    /\ consumerNew[1].subscribe # None

\* C4: a consumer built from a configuration with enabled = false is not enabled,
\* and start_consuming returns Ok at once: the loop is never entered, no stream
\* item is read, no handler runs and nothing is broadcast.
C4_DisabledConsumerReturnsAtOnce ==
    (HasConsumer /\ ~consumerNew[1].config.enabled) =>
        /\ ~EventConsumer_is_enabled(event_consumer)
        /\ loop.pc \in {"not_started", "returned"}
        /\ loop.pc = "returned" => loop.result = Some(Ok(Unit))
        /\ stream = <<>> /\ handled = <<>> /\ broadcast = <<>> /\ sleeps = <<>>

C4_Witness ==
    /\ HasConsumer
    /\ ~consumerNew[1].config.enabled
    /\ loop.pc = "returned"

\* The envelope a well-formed message was encoded from.
EnvelopeOf(item) ==
    CHOOSE e \in StreamEnvelopes : item = Message(Some(Bytes(to_string(e))))
IsValidEntry(entry) == entry.item \in ValidMessages
ValidEntries == SelectSeq(stream, IsValidEntry)

\* C5: a message without payload, with bytes that are not UTF-8 or with a text
\* that does not decode as an EventEnvelope is skipped (not handled, not
\* broadcast) and leaves the loop polling; the messages handled and broadcast are
\* exactly the well-formed ones, in the order received.
C5_MalformedMessagesAreSkipped ==
    /\ handled = [i \in 1..Len(ValidEntries) |-> EnvelopeOf(ValidEntries[i].item)]
    /\ broadcast = handled
    /\ (stream # <<>> /\ stream[Len(stream)].item \in MalformedMessages) =>
          loop.pc = "polling"

C5_Witness ==
    /\ Len(stream) = 2
    /\ stream[1].item = Message(Some(Bytes(UnknownEventType)))
    /\ stream[2].item \in ValidMessages
    /\ Len(handled) = 1
    /\ handled[1].event.variant = "TodoCreated"
    /\ broadcast = handled

IsTransportFailure(entry) == entry.item = StreamError("BrokerTransportFailure")
Yielded(item) == Len(stream') = Len(stream) + 1 /\ stream'[Len(stream')].item = item

\* C6: each transport failure the stream yields puts the loop into one backoff of
\* 5 seconds, and the only step out of a backoff is back to polling the same
\* stream; no transport failure ends the loop.
C6_TransportFailureBacksOff ==
    [][/\ Yielded(StreamError("BrokerTransportFailure")) =>
             loop'.pc = "backoff" /\ sleeps' = Append(sleeps, 5)
       /\ loop.pc = "backoff" =>
             loop'.pc = "polling" /\ loop'.result = None /\ stream' = stream
       /\ Len(sleeps') = Len(SelectSeq(stream', IsTransportFailure))]_vars

C6_Witness ==
    /\ Len(stream) >= 2
    /\ IsTransportFailure(stream[1])
    /\ IsTransportFailure(stream[2])
    /\ sleeps = <<5, 5>>
    /\ loop.pc = "polling"

ConsumerIsEnabled == HasConsumer /\ EventConsumer_is_enabled(event_consumer)
StreamHasEnded == stream # <<>> /\ stream[Len(stream)].item = StreamEnd

\* C7 as stated: while the consumer is enabled start_consuming never returns.
C7_EnabledLoopNeverReturns == ConsumerIsEnabled => loop.pc # "returned"

\* C7 as amended: while the consumer is enabled no stream item (message, decodable
\* or not, transport failure or other error) makes start_consuming return; it
\* returns, with Ok, exactly when the stream itself ends.
C7_EnabledLoopReturnsOnlyAtStreamEnd ==
    ConsumerIsEnabled =>
        /\ loop.pc = "returned" <=> StreamHasEnded
        /\ loop.pc = "returned" => loop.result = Some(Ok(Unit))

C7_Witness ==
    /\ ConsumerIsEnabled
    /\ Len(stream) = 3
    /\ stream[1].item \in MalformedMessages
    /\ stream[2].item = StreamError("PartitionEOF")
    /\ stream[3].item \in ValidMessages
    /\ loop.pc = "polling"

\* The entity family of a variant, and the names the router derives from it.
Family(variant) ==
    CASE variant \in {"UserRegistered", "UserLoggedIn"} -> "user"
      [] variant \in {"TodoCreated", "TodoUpdated", "TodoCompleted", "TodoDeleted",
                      "TodosDeletedBatch", "TodosUpdatedBatch"} -> "todo"
      [] variant \in {"CategoryCreated", "CategoryUpdated", "CategoryDeleted"} -> "category"
      [] variant \in {"TagCreated", "TagUpdated", "TagDeleted"} -> "tag"
EntityPlural(family) ==
    CASE family = "user" -> "users" [] family = "todo" -> "todos"
      [] family = "category" -> "categories" [] family = "tag" -> "tags"
IsBatch(variant) == variant \in {"TodosDeletedBatch", "TodosUpdatedBatch"}
EntityId(event) ==
    CASE Family(event.variant) = "user" -> event.user_id
      [] Family(event.variant) = "todo" -> event.todo_id
      [] Family(event.variant) = "category" -> event.category_id
      [] Family(event.variant) = "tag" -> event.tag_id
Routes == 1..Len(routed)

\* C8: the topic of every event is "{topic_prefix}.{entity_plural}" of the
\* event's entity family, so two events of one family get one topic whatever
\* their actions and payloads.
C8_TopicByEntityFamily ==
    /\ \A i \in Routes :
          routed[i].topic =
              config.topic_prefix \o "." \o EntityPlural(Family(routed[i].event.variant))
    /\ \A i, j \in Routes :
          Family(routed[i].event.variant) = Family(routed[j].event.variant) =>
              routed[i].topic = routed[j].topic

C8_Witness ==
    /\ Len(routed) = 2
    /\ routed[1].event.variant = "TodosDeletedBatch"
    /\ routed[2].event.variant = "TodoCreated"
    /\ routed[1].topic = "app.todos"
    /\ routed[2].topic = "app.todos"

\* C9: the key of a single-entity event is "{entity_singular}.{entity_id}", so
\* two events about one entity get the same topic and key whatever their actions;
\* the key of a batch event is the literal of its batch kind, whatever its ids.
C9_KeyByEntity ==
    /\ \A i \in Routes :
          LET e == routed[i].event
          IN  /\ ~IsBatch(e.variant) =>
                    routed[i].key = Family(e.variant) \o "." \o EntityId(e)
              /\ e.variant = "TodosDeletedBatch" => routed[i].key = "batch.delete"
              /\ e.variant = "TodosUpdatedBatch" => routed[i].key = "batch.update"
    /\ \A i, j \in Routes :
          LET a == routed[i].event
              b == routed[j].event
          IN  (/\ ~IsBatch(a.variant) /\ ~IsBatch(b.variant)
               /\ Family(a.variant) = Family(b.variant)
               /\ EntityId(a) = EntityId(b)) =>
                  routed[i].topic = routed[j].topic /\ routed[i].key = routed[j].key

C9_Witness ==
    /\ Len(routed) = 2
    /\ routed[1].event.variant = "TodoCreated"
    /\ routed[1].event.todo_id = "u1"
    /\ routed[1].event.user_id = "u2"
    /\ routed[2].event.variant = "TodoDeleted"
    /\ routed[2].event.todo_id = "u1"
    /\ routed[1].key = "todo.u1"
    /\ routed[2].key = "todo.u1"

\* C10: a publish_event call on an enabled producer hands exactly one record to
\* the broker client, with the configured timeout; it returns Ok when that send
\* was delivered and an error when it timed out or was rejected, and it has made
\* no second send by then.
C10_OneSendPerPublish ==
    \A id \in CallIds :
        calls[id].enabled =>
            /\ Cardinality(SendsOf(id)) = 1
            /\ \A i \in SendsOf(id) :
                  sent[i].record.timeout_ms = config.producer_timeout_ms
            /\ calls[id].pc = "returned" =>
                  /\ Len(calls[id].outcomes) = 1
                  /\ calls[id].outcomes[1] = "delivered" =>
                        calls[id].result = Some(Ok(Unit))
                  /\ calls[id].outcomes[1] \in {"timed_out", "rejected"} =>
                        ~calls[id].result[1].ok

C10_Witness ==
    /\ Len(calls) = 2
    /\ calls[1].enabled /\ calls[1].pc = "returned" /\ calls[1].outcomes = <<"timed_out">>
    /\ calls[2].enabled /\ calls[2].pc = "returned" /\ calls[2].outcomes = <<"delivered">>
    /\ ~calls[1].result[1].ok
    /\ Len(sent) = 2

(***************************************************************************)
(* Subscribers of the broadcast channel.                                   *)
(***************************************************************************)
RECURSIVE IsSubsequence(_, _)
IsSubsequence(s, t) ==
    IF s = <<>> THEN TRUE
    ELSE IF t = <<>> THEN FALSE
    ELSE IF Head(s) = Head(t) THEN IsSubsequence(Tail(s), Tail(t))
    ELSE IsSubsequence(s, Tail(t))

ActiveSubscribers == {s \in Subscribers : receivers[s].active}
\* The envelopes broadcast since subscriber s attached, in order.
BroadcastSince(s) == SubSeq(broadcast, receivers[s].since + 1, Len(broadcast))
\* The position of the oldest value the channel still keeps.
Oldest == channel.tail - Len(channel.values)
Drained(s) == receivers[s].next = channel.tail
\* Subscriber s never fell behind the backlog, and is not behind it now.
NeverLagged(s) == receivers[s].lagged = 0 /\ receivers[s].next >= Oldest

\* C11 as stated: every subscriber receives every envelope broadcast after it
\* subscribed (and none broadcast before): what it has received is the start of
\* the sequence broadcast since, and all of it once nothing is waiting.
C11_SubscriberReceivesAllSince ==
    \A s \in ActiveSubscribers :
        /\ Len(receivers[s].received) <= Len(BroadcastSince(s))
        /\ receivers[s].received = SubSeq(BroadcastSince(s), 1, Len(receivers[s].received))
        /\ Drained(s) => receivers[s].received = BroadcastSince(s)

\* C11: every subscriber, however many there are, receives in order only
\* envelopes broadcast after it subscribed, and it receives every one of them
\* as long as it never falls more than the channel's capacity behind; a
\* subscriber that does fall behind misses the oldest of them.
C11_SubscriberReceivesAllSinceUnlessLagged ==
    \A s \in ActiveSubscribers :
        /\ IsSubsequence(receivers[s].received, BroadcastSince(s))
        /\ Len(receivers[s].received) + receivers[s].lagged <= Len(BroadcastSince(s))
        /\ NeverLagged(s) =>
              /\ receivers[s].received =
                     SubSeq(BroadcastSince(s), 1, Len(receivers[s].received))
              /\ Drained(s) => receivers[s].received = BroadcastSince(s)

C11_Witness ==
    /\ receivers["s1"].active /\ receivers["s2"].active
    /\ receivers["s1"].since = 0 /\ receivers["s2"].since = 1
    /\ Len(broadcast) = 2 /\ broadcast[1] # broadcast[2]
    /\ NeverLagged("s1") /\ NeverLagged("s2")
    /\ receivers["s1"].received = broadcast
    /\ receivers["s2"].received = <<broadcast[2]>>

\* C12: the broadcast never stalls the loop.  The backlog never exceeds the
\* channel's capacity; a send with the backlog full completes in the same turn,
\* whatever the subscribers have read: it drops the oldest envelope, leaves the
\* receivers alone and the loop polling, so a subscriber that had not read the
\* dropped envelope has missed it.
C12_BroadcastNeverStallsLoop ==
    /\ [](Len(channel.values) <= channel.capacity)
    /\ [][(broadcast' # broadcast /\ receiver_count > 0) =>
             /\ loop'.pc = "polling"
             /\ receivers' = receivers
             /\ channel'.tail = channel.tail + 1
             /\ Len(channel.values) = channel.capacity =>
                   /\ channel'.values =
                          Append(Tail(channel.values), broadcast'[Len(broadcast')])
                   /\ \A s \in ActiveSubscribers :
                         receivers[s].next <= Oldest =>
                             broadcast_recv(channel', receivers'[s]).result = Err("Lagged")]_vars

C12_Witness ==
    /\ loop.pc = "polling"
    /\ Len(channel.values) = channel.capacity
    /\ \E s \in ActiveSubscribers :
          /\ receivers[s].lagged = 1
          /\ receivers[s].since = 0
          /\ Len(broadcast) = 3
          /\ receivers[s].received = <<broadcast[2], broadcast[3]>>

IsSend(e) == e.op = "send"

\* C13: every subscriber receives envelopes in the order the loop processed
\* them; for each message the envelope is sent right after its handle_event ran
\* and before the next message is handled.
C13_BroadcastKeepsProcessingOrder ==
    /\ \A s \in ActiveSubscribers : IsSubsequence(receivers[s].received, broadcast)
    /\ Len(SelectSeq(effects, IsSend)) = Len(broadcast)
    /\ \A i \in 1..Len(effects) :
          /\ effects[i].op = "send" =>
                /\ i > 1
                /\ effects[i - 1] = Effect("handle_event", effects[i].envelope)
                /\ effects[i].envelope = broadcast[Len(SelectSeq(SubSeq(effects, 1, i), IsSend))]
          /\ effects[i].op = "handle_event" =>
                /\ i < Len(effects)
                /\ effects[i + 1] = Effect("send", effects[i].envelope)

C13_Witness ==
    /\ Len(effects) = 4
    /\ effects[1].envelope # effects[3].envelope
    /\ \E s \in ActiveSubscribers :
          receivers[s].received = <<effects[1].envelope, effects[3].envelope>>

\* C14: an envelope sent while nobody is subscribed is dropped: the channel
\* stores nothing, process_message still returns Ok and the loop keeps polling.
\* A subscriber that attaches later starts after it: what it has received, has
\* missed and can still receive are the envelopes sent since it attached.
C14_BroadcastWithoutSubscriberIsDropped ==
    /\ [](\A s \in ActiveSubscribers :
              Len(receivers[s].received) + receivers[s].lagged
                  + (channel.tail - receivers[s].next) = Len(BroadcastSince(s)))
    /\ [][(broadcast' # broadcast /\ receiver_count = 0) =>
             /\ channel' = channel
             /\ stream'[Len(stream')].outcome = "Ok"
             /\ loop'.pc = "polling"]_vars

C14_Witness ==
    /\ Len(broadcast) = 2
    /\ channel.tail = 1
    /\ loop.pc = "polling"
    /\ \E s \in ActiveSubscribers :
          /\ receivers[s].since = 1
          /\ receivers[s].received = <<broadcast[2]>>

(***************************************************************************)
(* End to end: producer, broker, consumer, subscriber.                     *)
(***************************************************************************)
\* The envelope call id put on the wire, as the consumer decodes it.
EnvelopeSent(k) == from_str(sent[k].record.payload)[1]
\* Subscriber s has received the envelope that call id published.
Received(s, id) ==
    /\ id \in CallIds
    /\ \E k \in SendsOf(id), i \in 1..Len(receivers[s].received) :
        /\ receivers[s].received[i] = EnvelopeSent(k)
        /\ receivers[s].received[i].event = calls[id].event
        /\ receivers[s].received[i].metadata.user_id = calls[id].user_id
\* Call id has published on an enabled producer while subscriber s listens to
\* an enabled consumer that has not yet been handed the record.
PublishedToSubscriber(s, id) ==
    /\ id \in CallIds
    /\ calls[id].enabled
    /\ ConsumerIsEnabled
    /\ receivers[s].active
    /\ \A k \in SendsOf(id) : ~Delivered(k)
SendFailed(id) ==
    id \in CallIds /\ calls[id].pc = "returned" /\ ~calls[id].result[1].ok

HeaderKeys(h) == {h[i].key : i \in 1..Len(h)}
HeaderValue(h, key) == h[CHOOSE i \in 1..Len(h) : h[i].key = key].value
IsRfc3339(text) == \E t \in 0..9 : text = to_rfc3339(t)

\* C17: every record publish_event sends carries, once each, the headers
\* event_id, timestamp and content_type, with the envelope's id, the envelope's
\* timestamp as an RFC3339 text and "application/json"; a user_id header with
\* the actor id exactly when the call had one; and a correlation_id header
\* exactly when the envelope has a correlation id.
C17_HeadersOfSentRecords ==
    \A i \in 1..Len(sent) :
        LET h == sent[i].record.headers
            metadata == sent[i].record.payload.v.metadata.v
            call == calls[sent[i].call]
        IN  /\ Cardinality(HeaderKeys(h)) = Len(h)
            /\ {"event_id", "timestamp", "content_type"} \subseteq HeaderKeys(h)
            /\ HeaderKeys(h) \subseteq
                   {"event_id", "timestamp", "content_type", "user_id", "correlation_id"}
            /\ HeaderValue(h, "event_id") = metadata.event_id.v
            /\ IsRfc3339(HeaderValue(h, "timestamp"))
            /\ deserialize_datetime(HeaderValue(h, "timestamp"))
                   = deserialize_datetime(metadata.timestamp.v)
            /\ HeaderValue(h, "content_type") = "application/json"
            /\ "user_id" \in HeaderKeys(h) <=> IsSome(call.user_id)
            /\ IsSome(call.user_id) => HeaderValue(h, "user_id") = call.user_id[1]
            /\ "correlation_id" \in HeaderKeys(h) <=> metadata.correlation_id # JNull

C17_Witness ==
    /\ Len(sent) = 2
    /\ calls[sent[1].call].user_id = Some("u2")
    /\ calls[sent[2].call].user_id = None
    /\ HeaderKeys(sent[1].record.headers) = {"event_id", "timestamp", "user_id", "content_type"}
    /\ HeaderKeys(sent[2].record.headers) = {"event_id", "timestamp", "content_type"}
    /\ HeaderValue(sent[2].record.headers, "timestamp") = "1970-01-01T00:00:01+00:00"

(***************************************************************************)
(* Overlapping publish_event calls.                                        *)
(***************************************************************************)
\* The key and the topic the router gives an event.
KeyOf(event) ==
    CASE event.variant = "TodosDeletedBatch" -> "batch.delete"
      [] event.variant = "TodosUpdatedBatch" -> "batch.update"
      [] OTHER -> Family(event.variant) \o "." \o EntityId(event)
TopicOf(event) == config.topic_prefix \o "." \o EntityPlural(Family(event.variant))
\* Calls id and other are both between their send and its completion.
Overlap(id, other) ==
    id # other /\ calls[id].pc = "sending" /\ calls[other].pc = "sending"

\* C18: publish_event calls that overlap on the clones of one producer are
\* independent: each call on an enabled producer sends one record, which holds
\* an envelope of its own (an id no other record has) with the call's event and
\* actor, and has that event's topic and key; every call sees the mode the
\* producer was built with, and no step of a call changes the producer.
C18_OverlappingPublishesAreIndependent ==
    /\ [](/\ Cardinality({EnvelopeSent(k).metadata.event_id : k \in 1..Len(sent)})
                = Len(sent)
          /\ \A id \in CallIds :
                /\ HasProducer
                /\ calls[id].enabled = EventProducer_is_enabled(kafka_producer)
                /\ calls[id].enabled =>
                      /\ Cardinality(SendsOf(id)) = 1
                      /\ \A k \in SendsOf(id) :
                            LET decoded == from_str(sent[k].record.payload) IN
                            /\ decoded # None
                            /\ decoded[1].event = calls[id].event
                            /\ decoded[1].metadata.user_id = calls[id].user_id
                            /\ sent[k].record.topic = TopicOf(calls[id].event)
                            /\ sent[k].record.key = KeyOf(calls[id].event))
    /\ [][HasProducer => (HasProducer' /\ kafka_producer' = kafka_producer)]_vars

C18_Witness ==
    /\ Len(calls) = 2
    /\ Overlap(1, 2)
    /\ calls[1].event # calls[2].event
    /\ calls[1].user_id # calls[2].user_id
    /\ Len(sent) = 2
    /\ sent[1].record.key # sent[2].record.key

(***************************************************************************)
(* Process startup (main.rs).                                              *)
(***************************************************************************)
\* The streaming loop has been started: a consumer exists and a task has
\* entered start_consuming.
LoopStarted == HasConsumer /\ loop.pc # "not_started"

\* C19 as stated: by the time the process serves requests the consumer's
\* streaming loop has been started, once, as a background task.
C19_LoopStartedOnceAtStartup == process = "serving" => LoopStarted

\* C20: no outcome of the broker while main constructs the producer aborts the
\* process: main never panics, after a failed construction it can always go on
\* (to the disabled construction, then to serving), it serves only with a
\* producer in hand, and that producer is disabled whenever the enabled
\* construction failed.
C20_BrokerFailureNeverAbortsStartup ==
    /\ process # "panicked"
    /\ (process = "starting" /\ producerNew # <<>>) =>
           (ENABLED main_producer_fallback \/ ENABLED main_serve(TRUE))
    /\ process \in {"serving", "bind_failed"} => HasProducer
    /\ (process = "serving" /\ producerNew[1].create = "failed") =>
           /\ Len(producerNew) = 2
           /\ ~EventProducer_is_enabled(kafka_producer)
           /\ kafka_producer.config = [config EXCEPT !.enabled = FALSE]

C20_Witness ==
    /\ process = "serving"
    /\ producerNew[1].create = "failed"
    /\ ~EventProducer_is_enabled(kafka_producer)
    /\ Len(calls) = 1
    /\ calls[1].result = Some(Ok(Unit))

(***************************************************************************)
(* The consumer's mode.                                                    *)
(***************************************************************************)
\* The loop of an enabled consumer is streaming (polling the stream, running
\* the body for an item) or backing off.
Streaming == loop.pc = "polling"
Backoff == loop.pc = "backoff"
\* What is_enabled() was fixed to by the constructor call.
ModeAtConstruction == consumerNew[1].setup = "subscribed"
DisabledIsNoop ==
    /\ loop.pc \in {"not_started", "returned"}
    /\ stream = <<>> /\ handled = <<>> /\ broadcast = <<>> /\ sleeps = <<>>

\* C21 as stated: the mode is the one chosen at construction; a disabled
\* consumer does nothing, and the loop of an enabled consumer, once started, is
\* always either streaming or backing off.
C21_EnabledLoopIsStreamingOrBackoff ==
    HasConsumer =>
        /\ EventConsumer_is_enabled(event_consumer) = ModeAtConstruction
        /\ ~EventConsumer_is_enabled(event_consumer) => DisabledIsNoop
        /\ (EventConsumer_is_enabled(event_consumer) /\ loop.pc # "not_started") =>
               (Streaming \/ Backoff)

\* C21: the consumer's mode is chosen once at construction and never changes:
\* is_enabled() is what the constructor decided, in every state; a disabled
\* consumer stays disabled and does nothing; the loop of an enabled consumer
\* only moves between streaming and backoff until the stream itself ends, when
\* start_consuming returns Ok; and the consumer value, with the subscription
\* made by its constructor, is never changed by a later step.
C21_ModeFixedAtConstruction ==
    /\ [](HasConsumer =>
            /\ EventConsumer_is_enabled(event_consumer) = ModeAtConstruction
            /\ ~EventConsumer_is_enabled(event_consumer) => DisabledIsNoop
            /\ (EventConsumer_is_enabled(event_consumer) /\ loop.pc # "not_started") =>
                   /\ Streaming \/ Backoff \/ loop.pc = "returned"
                   /\ loop.pc = "returned" <=> StreamHasEnded
                   /\ loop.pc = "returned" => loop.result = Some(Ok(Unit)))
    /\ [][/\ consumerNew # <<>> => consumerNew' = consumerNew
          /\ Streaming => (Streaming' \/ Backoff' \/ StreamHasEnded')
          /\ Backoff => (Streaming' \/ Backoff')]_vars

C21_Witness ==
    /\ ConsumerIsEnabled
    /\ consumerNew[1].subscribe = Some(consumer_topics(config))
    /\ Len(stream) = 3
    /\ IsTransportFailure(stream[1])
    /\ stream[2].item \in ValidMessages
    /\ IsTransportFailure(stream[3])
    /\ Backoff
    /\ sleeps = <<5, 5>>

(***************************************************************************)
(* The topics of the consumer and of the producer.                         *)
(***************************************************************************)
SeqToSet(q) == {q[i] : i \in 1..Len(q)}
\* The topics the constructor call gave to consumer.subscribe.
SubscribedTopics == SeqToSet(consumerNew[1].subscribe[1])
Entities == {"users", "todos", "categories", "tags"}

\* C22: an enabled consumer has subscribed, in one call, to the four topics
\* "{prefix}.users", "{prefix}.todos", "{prefix}.categories" and
\* "{prefix}.tags", each once, with the prefix of the configuration it was
\* built from, and to no other topic.
C22_EnabledConsumerSubscribesFourTopics ==
    ConsumerIsEnabled =>
        /\ IsSome(consumerNew[1].subscribe)
        /\ Len(consumerNew[1].subscribe[1]) = 4
        /\ SubscribedTopics = {config.topic_prefix \o "." \o e : e \in Entities}
        /\ \A prefix \in Prefixes \ {config.topic_prefix}, e \in Entities :
              (prefix \o "." \o e) \notin SubscribedTopics

C22_Witness ==
    /\ ConsumerIsEnabled
    /\ config.topic_prefix = "app"
    /\ consumerNew[1].subscribe =
           Some(<<"app.users", "app.todos", "app.categories", "app.tags">>)
    /\ loop.pc = "polling"

(***************************************************************************)
(* The HTTP service and the event layer.                                   *)
(***************************************************************************)
Exchanged == http # <<>>
\* The last request changed the table and was answered with a success status.
SuccessfulMutation ==
    /\ Exchanged
    /\ http[1].request.route \in
           {"POST /api/todos", "PATCH /api/todos/{id}", "DELETE /api/todos/{id}"}
    /\ http[1].response.status \in {200, 201, 204}

\* C23: the response to a request (status and body) and the rows it leaves
\* in the table are the same on two runs that differ only in the producer and
\* the broker: whatever the mode the producer was built in and whatever the
\* broker would do with a send, the exchange is the one of the run with the
\* event layer switched off.
C23_ResponsesIndependentOfProducer ==
    Exchanged =>
        /\ http[1].response.status = http[1].reference.response.status
        /\ http[1].response.body = http[1].reference.response.body
        /\ db_pool = http[1].reference.pool

C23_Witness ==
    /\ Exchanged
    /\ config.enabled
    /\ producerNew[1].create = "created"
    /\ http[1].enabled
    /\ http[1].broker = "rejected"
    /\ http[1].request.route = "POST /api/todos"
    /\ http[1].response.status = 201
    /\ http[1].reference.response.status = 201
    /\ Cardinality(db_pool.todos) = 2

\* The event that stands for the mutation of the last exchange.
IsEventOfMutation(event) ==
    /\ http[1].request.route = "POST /api/todos" =>
          event.variant = "TodoCreated" /\ event.title = http[1].response.body.title
    /\ http[1].request.route = "PATCH /api/todos/{id}" =>
          event.variant \in {"TodoUpdated", "TodoCompleted"}
    /\ http[1].request.route = "DELETE /api/todos/{id}" => event.variant = "TodoDeleted"

\* C24 as stated: when a mutation made through the service has succeeded, the
\* producer has been asked to publish the event that stands for it.
C24_MutationIsPublished ==
    SuccessfulMutation => \E id \in CallIds : IsEventOfMutation(calls[id].event)

(***************************************************************************)
(* One message at a time.                                                  *)
(***************************************************************************)
Reads == stream' # stream

\* C25: one consumer instance processes messages strictly one at a time: at
\* most one message is in flight, the loop is not at stream.next() while one
\* is, and whenever the loop reads an item the handler and the broadcast of
\* every message read before have completed.  A handler that does not return
\* therefore keeps the loop from reading anything more.
C25_OneMessageAtATime ==
    /\ [](inflight # <<>> => (Len(inflight) = 1 /\ loop.pc = "processing"))
    /\ [][Reads => /\ inflight = <<>>
                   /\ handled = broadcast
                   /\ Len(effects) = 2 * Len(handled)]_vars
    /\ [][inflight # <<>> => stream' = stream]_vars

C25_Witness ==
    /\ Len(stream) = 2
    /\ stream[1].item \in ValidMessages /\ stream[2].item \in ValidMessages
    /\ stream[1].item # stream[2].item
    /\ Len(handled) = 1 /\ handled = broadcast
    /\ Len(inflight) = 1
    /\ inflight[1].message = stream[2].item
    /\ inflight[1].stage = "handle_event"
    /\ loop.pc = "processing"

(***************************************************************************)
(* Duplicate deliveries.                                                   *)
(***************************************************************************)
Count(q, x) == Cardinality({i \in 1..Len(q) : q[i] = x})
\* The stream entries that delivered envelope e.
DeliveriesOf(e) == {i \in 1..Len(stream) : stream[i].item = Message(Some(Bytes(to_string(e))))}

\* C26: the consumer does not deduplicate and its handler never fails: every
\* delivery of a decodable message ends Ok, and each envelope is handled and
\* broadcast as many times as the broker delivered it, so an envelope (one
\* event_id) delivered twice is handled twice and broadcast twice.
C26_HandledOncePerDelivery ==
    \A e \in StreamEnvelopes :
        /\ \A i \in DeliveriesOf(e) : stream[i].outcome = "Ok"
        /\ Count(handled, e) = Cardinality(DeliveriesOf(e))
        /\ Count(broadcast, e) = Cardinality(DeliveriesOf(e))

C26_Witness ==
    /\ Len(stream) = 3
    /\ stream[1].item \in ValidMessages
    /\ stream[2].item = stream[1].item
    /\ stream[3].item = stream[1].item
    /\ Len(handled) = 3
    /\ handled[1].metadata.event_id = "e2"
    /\ handled[2] = handled[1] /\ handled[3] = handled[1]
    /\ broadcast = handled

(***************************************************************************)
(* Producer topics and consumer subscription.                              *)
(***************************************************************************)
Applied == topology # <<>>

\* C27: with one configuration for producer and consumer, the topic the
\* producer chooses for an event, whatever the event, is one of the topics
\* the consumer built from that configuration subscribes to.
C27_ProducerTopicIsSubscribed ==
    Applied =>
        /\ IsSome(topology[1].loaded.subscribe) =>
              topology[1].loaded.topic \in SeqToSet(topology[1].loaded.subscribe[1])
        /\ IsSome(topology[1].changed.subscribe) =>
              topology[1].changed.topic \in SeqToSet(topology[1].changed.subscribe[1])

C27_Witness ==
    /\ Applied
    /\ config.enabled
    /\ topology[1].event.variant = "TodosUpdatedBatch"
    /\ topology[1].loaded.topic = "app.todos"
    /\ topology[1].loaded.subscribe =
           Some(<<"app.users", "app.todos", "app.categories", "app.tags">>)

\* C28: the per-entity topic options have no effect: with any of them
\* changed, the topic the producer chooses for an event and the topics the
\* consumer subscribes to are what they are without the change, namely the
\* names formed from topic_prefix.
C28_TopicOptionsHaveNoEffect ==
    Applied =>
        /\ topology[1].changed.topic = topology[1].loaded.topic
        /\ topology[1].changed.subscribe = topology[1].loaded.subscribe
        /\ topology[1].changed.topic =
               config.topic_prefix \o "." \o EntityPlural(Family(topology[1].event.variant))
        /\ IsSome(topology[1].changed.subscribe) =>
               SeqToSet(topology[1].changed.subscribe[1])
                   = {config.topic_prefix \o "." \o e : e \in Entities}

C28_Witness ==
    /\ Applied
    /\ config.enabled
    /\ config.topic_prefix = "axum-server"
    /\ topology[1].changed.config.todo_events_topic = "app.todos.v2"
    /\ topology[1].changed.config.tag_events_topic = "app.tags.v2"
    /\ topology[1].loaded.config.todo_events_topic = "todo-events"
    /\ topology[1].event.variant = "TodoCreated"
    /\ topology[1].changed.topic = "axum-server.todos"
    /\ IsSome(topology[1].changed.subscribe)

(***************************************************************************)
(* Correlation ids.                                                        *)
(***************************************************************************)
\* C29: no record sent through publish_event, or through a wrapper that
\* calls it with the event's owner as the actor, has a correlation_id header,
\* and the metadata of its payload has correlation_id null.
C29_NoCorrelationIdIsSent ==
    \A i \in 1..Len(sent) :
        /\ "correlation_id" \notin HeaderKeys(sent[i].record.headers)
        /\ sent[i].record.payload.v.metadata.v.correlation_id = JNull

C29_Witness ==
    /\ Len(sent) = 2
    /\ calls[sent[1].call].event.variant = "TodoCreated"
    /\ calls[sent[1].call].user_id = Some(calls[sent[1].call].event.user_id)
    /\ calls[sent[2].call].user_id = None
    /\ calls[sent[1].call].outcomes = <<"delivered">>
    /\ HeaderKeys(sent[1].record.headers) = {"event_id", "timestamp", "user_id", "content_type"}
    /\ sent[2].record.payload.v.metadata.v.user_id = JNull

(***************************************************************************)
(* The tasks of run_event_consumer.                                        *)
(***************************************************************************)
TaskIds == 1..Len(tasks)
\* The stream entries task i took.
TurnsOf(i) == {j \in 1..Len(stream) : stream[j].task = i}
IsValidTurn(entry) == entry.item \in ValidMessages

\* C30: run_event_consumer spawns no task for a disabled consumer and one
\* task per call for an enabled one, however often it is called; the tasks of
\* repeated calls run side by side on one stream handle and one broadcast
\* channel: every item the stream yields is taken by exactly one of them, and
\* what each of them decodes is handled and sent to the same channel.
C30_OneTaskPerCallWhenEnabled ==
    /\ HasConsumer =>
          Len(tasks) = IF EventConsumer_is_enabled(event_consumer) THEN runs ELSE 0
    /\ \A j \in 1..Len(stream) : stream[j].task \in TaskIds
    /\ \A i \in TaskIds : tasks[i].turns = Cardinality(TurnsOf(i))
    /\ Len(broadcast) = Len(SelectSeq(stream, IsValidTurn))
    /\ handled = broadcast
    /\ \A s \in ActiveSubscribers : channel.tail = Len(BroadcastSince(s))

C30_Witness ==
    /\ ConsumerIsEnabled
    /\ runs = 2
    /\ Len(tasks) = 2
    /\ tasks[1].pc = "polling" /\ tasks[2].pc = "backoff"
    /\ receivers["s1"].active /\ receivers["s1"].since = 0
    /\ Len(stream) = 3
    /\ stream[1].task = 1 /\ stream[2].task = 2 /\ stream[3].task = 2
    /\ stream[1].item \in ValidMessages /\ stream[2].item \in ValidMessages
    /\ channel.values = <<handled[1], handled[2]>>

====
